---- MODULE Spec2Model ----
(***************************************************************************)
(* A model of the plagiarism checker backend (src/backend/main.py): one    *)
(* POST /check request, from input validation through the concurrent      *)
(* per-chunk pipeline (citation check, gate, search, fetch, score) to the  *)
(* aggregation of the response.                                            *)
(*                                                                         *)
(* Scheduling follows asyncio: one event loop, a task runs from one await  *)
(* to the next without interruption, the first steps of the tasks given to *)
(* asyncio.gather run in creation order before any I/O completion is       *)
(* handled, I/O completions arrive in any order, and asyncio.Semaphore     *)
(* serves its waiters first-in first-out.                                  *)
(*                                                                         *)
(* Abstractions.  A text is the sequence of its CHUNK_SIZE pieces; a piece *)
(* of a fetched page carries its trimmed length and the cosine similarity  *)
(* (in percent) the embedding model gives it against the chunk under       *)
(* analysis.  Similarities and the plagiarism percentage are integers: a   *)
(* similarity is a whole percent, plagiarism_percent is in hundredths of a *)
(* percent (the two decimals of round(..., 2)).                            *)
(***************************************************************************)
EXTENDS Integers, Sequences, FiniteSets, TLC

\* ------------------------------------------------------------------
\* Program constants (src/backend/main.py, lines 37-50)
\* ------------------------------------------------------------------
MAX_FILE_SIZE_BYTES == 5242880
CHUNK_SIZE == 700
MAX_PAGE_CHUNKS_PER_SOURCE == 20
MIN_PAGE_CHUNK_LENGTH == 50
SIMILARITY_THRESHOLD == 30
HIGH_SIMILARITY_THRESHOLD == 60
MAX_CHUNKS_QUICK_SCAN == 15
MAX_CONCURRENT_REQUESTS == 5
MAX_RESULTS_PER_CHUNK == 5
MAX_MATCHES_RETURNED == 20
\* compute_best_similarity: page texts shorter than this are not scored
MIN_PAGE_TEXT_LENGTH == 100

\* ------------------------------------------------------------------
\* Bounds of the explored inputs, one family per specification
\* ------------------------------------------------------------------
\* Spec: many concurrent chunk tasks, any of them cited or not
MaxChunks == 6
\* SpecAgg: few chunk tasks with several sources each
AggMaxChunks == 2
\* SpecBig: long documents, at most BigMaxUncited chunks without a citation
BigMaxChunks == 21
BigMaxUncited == 1
\* SpecCancel: concurrent chunk tasks of a request that may be aborted
CancelMaxChunks == 6
\* SpecUrl: chunk tasks whose searches return links of every kind
UrlMaxChunks == 1
\* SpecChunk: texts of up to MaxTextLen characters cut at up to MaxChunkSize
MaxTextLen == 5
MaxChunkSize == 3
\* The sub-chunks of an explored page, after its leading filler.
MaxPagePieces == 3
\* SpecOrder: the chunks of a document; more than MAX_CONCURRENT_REQUESTS.
OrderMaxChunks == 6
\* SpecLive: the chunks of a document; more than MAX_CONCURRENT_REQUESTS.
LiveMaxChunks == 6

None == "None"
CITATION_SOURCE == "Citation Detected"

Min(a, b) == IF a < b THEN a ELSE b

\* round(num / den): to the nearest integer, a tie to the even one.
RoundHalfEven(num, den) ==
    LET q == num \div den
        r == num % den
    IN  IF 2 * r < den THEN q
        ELSE IF 2 * r > den THEN q + 1
        ELSE IF q % 2 = 0 THEN q ELSE q + 1

\* ------------------------------------------------------------------
\* Texts
\* ------------------------------------------------------------------
\* A fetched text or a snippet: the sequence of its pieces, <<>> for "".
\* A piece is what chunk_text makes of one slice of the text: raw is the
\* length of the slice, len its length once stripped, and sim percent plus
\* frac thousandths of a percent the cosine similarity of its embedding to
\* the chunk's, times 100.
EmptyText == <<>>
FinePiece(len, sim, frac) == [len |-> len, sim |-> sim, frac |-> frac, raw |-> len]
Piece(len, sim) == FinePiece(len, sim, 0)
OnePiece(len, sim) == <<Piece(len, sim)>>
\* The piece left of a slice of `raw` characters, blanks at its end.
Padded(piece, raw) == [piece EXCEPT !.raw = raw]

\* len(text).
RECURSIVE TextLen(_)
TextLen(text) ==
    IF text = <<>> THEN 0 ELSE Head(text).raw + TextLen(Tail(text))

\* ------------------------------------------------------------------
\* Similarity scoring
\* ------------------------------------------------------------------
\* similarities_list[idx] (lines 432-433, 442), in thousandths of a percent.
Similarity(page_chunk) == page_chunk.sim * 1000 + page_chunk.frac

\* The loop of lines 435-445 with ">=" for ">": the last maximum wins.
RECURSIVE BestFromLastTie(_, _, _)
BestFromLastTie(page_chunks, k, best) ==
    IF k > Len(page_chunks) THEN best
    ELSE IF page_chunks[k].len < MIN_PAGE_CHUNK_LENGTH
         THEN BestFromLastTie(page_chunks, k + 1, best)
         ELSE IF Similarity(page_chunks[k]) >= best.similarity
              THEN BestFromLastTie(page_chunks, k + 1,
                                   [similarity |-> Similarity(page_chunks[k]),
                                    piece |-> k])
              ELSE BestFromLastTie(page_chunks, k + 1, best)

\* The loop of lines 435-445 over page_chunks[from..]: the running maximum,
\* replaced only by a strictly greater similarity of a piece that is long
\* enough.
RECURSIVE BestFrom(_, _, _)
BestFrom(page_chunks, k, best) ==
    IF k > Len(page_chunks) THEN best
    ELSE IF page_chunks[k].len < MIN_PAGE_CHUNK_LENGTH
         THEN BestFrom(page_chunks, k + 1, best)
         ELSE IF Similarity(page_chunks[k]) > best.similarity
              THEN BestFrom(page_chunks, k + 1,
                            [similarity |-> Similarity(page_chunks[k]), piece |-> k])
              ELSE BestFrom(page_chunks, k + 1, best)

\* round(max_similarity, 2) of line 447, from thousandths to hundredths of
\* a percent.
Round2(max_similarity) == RoundHalfEven(max_similarity, 10)

\* What compute_best_similarity returns for the outcome of its loop: the
\* rounded maximum, as whole percents and hundredths, and the best piece.
Returned(best) ==
    [similarity |-> Round2(best.similarity) \div 100,
     cents |-> Round2(best.similarity) % 100,
     piece |-> best.piece]

\* A scorer that keeps the last of several maximal pieces.
ComputeBestLastTie(page_text) ==
    IF page_text = EmptyText \/ TextLen(page_text) < MIN_PAGE_TEXT_LENGTH
    THEN [similarity |-> 0, cents |-> 0, piece |-> 0]
    ELSE Returned(BestFromLastTie(SubSeq(page_text, 1,
                                         Min(Len(page_text), MAX_PAGE_CHUNKS_PER_SOURCE)),
                                  1, [similarity |-> 0, piece |-> 0]))

\* compute_best_similarity(chunk, page_text): (max_similarity, best piece);
\* piece 0 stands for the empty best_match_chunk "".
compute_best_similarity(page_text) ==
    IF page_text = EmptyText \/ TextLen(page_text) < MIN_PAGE_TEXT_LENGTH
    THEN [similarity |-> 0, cents |-> 0, piece |-> 0]
    ELSE Returned(BestFrom(SubSeq(page_text, 1,
                                  Min(Len(page_text), MAX_PAGE_CHUNKS_PER_SOURCE)),
                           1, [similarity |-> 0, piece |-> 0]))

\* Whether compute_best_similarity reaches the embedding model (model.encode).
InvokesModel(page_text) ==
    page_text # EmptyText /\ TextLen(page_text) >= MIN_PAGE_TEXT_LENGTH

\* A classifier whose high tier starts above the threshold, not at it.
ClassifyHighAboveThreshold(similarity, cited) ==
    IF cited THEN "Properly Cited"
    ELSE IF similarity < SIMILARITY_THRESHOLD THEN "No Significant Match Detected"
    ELSE IF similarity > HIGH_SIMILARITY_THRESHOLD THEN "High Risk"
    ELSE "Potential Plagiarism"

classify_similarity_status(similarity, cited) ==
    IF cited THEN "Properly Cited"
    ELSE IF similarity < SIMILARITY_THRESHOLD THEN "No Significant Match Detected"
    ELSE IF similarity >= HIGH_SIMILARITY_THRESHOLD THEN "High Risk"
    ELSE "Potential Plagiarism"

\* The recommendation text of lines 545-556, by tier.
Recommendation(similarity) ==
    IF similarity >= HIGH_SIMILARITY_THRESHOLD THEN "rewrite or cite"
    ELSE "add citation"

\* ------------------------------------------------------------------
\* Match candidates
\* ------------------------------------------------------------------
\* A citation entry that is not marked citation-safe.
CitedMatchUnmarked(chunk_index) ==
    [chunk_index |-> chunk_index, source |-> CITATION_SOURCE, similarity |-> 0,
     citation_safe |-> FALSE, status |-> classify_similarity_status(0, TRUE),
     recommendation |-> "keep bibliography"]

\* The citation-safe entry a cited chunk returns (lines 500-516).
CitedMatch(chunk_index) ==
    [chunk_index |-> chunk_index, source |-> CITATION_SOURCE, similarity |-> 0,
     citation_safe |-> TRUE, status |-> classify_similarity_status(0, TRUE),
     recommendation |-> "keep bibliography"]

\* The entry appended for a source at or above the threshold (lines 558-570).
SourceMatch(chunk_index, url, similarity) ==
    [chunk_index |-> chunk_index, source |-> url, similarity |-> similarity,
     citation_safe |-> FALSE,
     status |-> classify_similarity_status(similarity, FALSE),
     recommendation |-> Recommendation(similarity)]

\* ------------------------------------------------------------------
\* Aggregation (check_plagiarism, lines 691-772)
\* ------------------------------------------------------------------
\* all_matches: the per-chunk lists of gather, flattened in task order.
RECURSIVE Flatten(_)
Flatten(results) ==
    IF results = <<>> THEN <<>> ELSE Head(results) \o Flatten(Tail(results))

RangeOf(seq) == {seq[k] : k \in 1..Len(seq)}

citation_safe_indices(matches) ==
    {m.chunk_index : m \in {x \in RangeOf(matches) : x.citation_safe}}

\* Lines 706-714, with the citation-safe indices taken out.
plagiarized_chunk_indices(matches) ==
    {m.chunk_index : m \in {x \in RangeOf(matches) :
        ~x.citation_safe /\ x.similarity >= SIMILARITY_THRESHOLD}}
    \ citation_safe_indices(matches)

\* round((k / n) * 100.0, 2), in hundredths of a percent.
Round2Percent(k, n) == RoundHalfEven(k * 10000, n)

\* No sort: the entries stay in task order.
KeepTaskOrder(matches) == matches

\* list.sort(key=similarity, reverse=True): stable, equal keys keep their order.
RECURSIVE InsertDesc(_, _)
InsertDesc(sorted, m) ==
    IF sorted = <<>> THEN <<m>>
    ELSE IF Head(sorted).similarity >= m.similarity
         THEN <<Head(sorted)>> \o InsertDesc(Tail(sorted), m)
         ELSE <<m>> \o sorted

RECURSIVE SortBySimilarityDesc(_)
SortBySimilarityDesc(matches) ==
    IF matches = <<>> THEN <<>>
    ELSE CHOOSE sorted \in
             { InsertDesc(earlier, matches[Len(matches)]) :
                 earlier \in {SortBySimilarityDesc(SubSeq(matches, 1,
                                                          Len(matches) - 1))} } : TRUE

\* Lines 730-746: citation-safe entries always kept, another entry only when
\* its source has not been seen.
RECURSIVE DedupFrom(_, _)
DedupFrom(matches, seen_sources) ==
    IF matches = <<>> THEN <<>>
    ELSE LET match == Head(matches) IN
         IF match.citation_safe
         THEN <<match>> \o DedupFrom(Tail(matches), seen_sources)
         ELSE IF match.source \in seen_sources
              THEN DedupFrom(Tail(matches), seen_sources)
              ELSE <<match>> \o DedupFrom(Tail(matches),
                                          seen_sources \cup {match.source})

\* Deduplication by source alone, citation-safe entries included.
RECURSIVE DedupEveryEntry(_, _)
DedupEveryEntry(matches, seen_sources) ==
    IF matches = <<>> THEN <<>>
    ELSE IF Head(matches).source \in seen_sources
         THEN DedupEveryEntry(Tail(matches), seen_sources)
         ELSE <<Head(matches)>> \o DedupEveryEntry(Tail(matches),
                                    seen_sources \cup {Head(matches).source})

DedupBySourceOnly(sorted_matches) == DedupEveryEntry(sorted_matches, {})

Dedup(sorted_matches) == DedupFrom(sorted_matches, {})

\* The percentage taken from the list left after sorting and deduplication.
PlagiarismPercentOfUnique(all_matches, n_chunks) ==
    IF all_matches # <<>>
    THEN Round2Percent(
            Cardinality(plagiarized_chunk_indices(
                DedupFrom(SortBySimilarityDesc(all_matches), {}))),
            n_chunks)
    ELSE 0

\* Lines 699-720.
PlagiarismPercent(all_matches, n_chunks) ==
    IF all_matches # <<>>
    THEN Round2Percent(Cardinality(plagiarized_chunk_indices(all_matches)), n_chunks)
    ELSE 0

\* Line 749.
Truncate(matches) == SubSeq(matches, 1, Min(Len(matches), MAX_MATCHES_RETURNED))

\* Lines 752-765.
Summary(unique_matches, n_chunks) ==
    [total_chunks_analyzed |-> n_chunks,
     chunks_with_matches |->
        Cardinality({m.chunk_index : m \in {x \in RangeOf(unique_matches) :
            ~x.citation_safe /\ x.similarity >= SIMILARITY_THRESHOLD}}),
     citation_safe_chunks |->
        Cardinality({m.chunk_index : m \in {x \in RangeOf(unique_matches) :
            x.citation_safe}})]

\* ------------------------------------------------------------------
\* Request inputs
\* ------------------------------------------------------------------
\* str.lower() on the strings the explored requests, URLs and chunks carry.
Lower(s) ==
    CASE s = "QUICK" -> "quick"
      [] s = "Deep" -> "deep"
      [] s = "PDF" -> "pdf"
      [] s = "LOCALHOST" -> "localhost"
      [] s = "ET" -> "et"
      [] s = "AL" -> "al"
      [] OTHER -> s

\* A text input: None, "", whitespace only, or content that trims to n
\* pieces of CHUNK_SIZE characters; "error" is an extraction that raises.
NoText == [kind |-> "none", n |-> 0]
EmptyString == [kind |-> "empty", n |-> 0]
BlankText == [kind |-> "blank", n |-> 0]
Content(n) == [kind |-> "content", n |-> n]
ExtractionError == [kind |-> "error", n |-> 0]

\* The form fields of POST /check (lines 589-593): text, file, scan_mode.
\* file_text is what the extractor for the file's extension returns.
FormRequest(text, scan_mode) ==
    [has_file |-> FALSE, file_size |-> 0, ext |-> "", file_text |-> NoText,
     text |-> text, scan_mode |-> scan_mode]

FileRequest(file_size, ext, file_text, text, scan_mode) ==
    [has_file |-> TRUE, file_size |-> file_size, ext |-> ext,
     file_text |-> file_text, text |-> text, scan_mode |-> scan_mode]

NoRequest == FormRequest(NoText, None)

\* not text or not text.strip()
IsBlank(text) == text.kind \in {"none", "empty", "blank"}

\* chunk_text(text.strip()) at the handler's level: the pieces of the
\* trimmed text, named by their position in the document.
ChunkIds(text) == [k \in 1..text.n |-> k]

\* The input handling without the upload size cap.
ValidateInputNoSizeCap(req) ==
    IF req.has_file
    THEN IF req.file_size = 0 THEN [status |-> 400, text |-> NoText]
         ELSE IF Lower(req.ext) \notin {"pdf", "docx", "txt"}
              THEN [status |-> 400, text |-> NoText]
         ELSE IF req.file_text.kind = "error"
              THEN [status |-> 500, text |-> NoText]
         ELSE IF IsBlank(req.file_text) THEN [status |-> 400, text |-> NoText]
         ELSE [status |-> 200, text |-> req.file_text]
    ELSE IF IsBlank(req.text) THEN [status |-> 400, text |-> NoText]
         ELSE [status |-> 200, text |-> req.text]

\* Lines 610-657: the status the input handling ends with (200: accepted)
\* and the text that goes on to the chunker.
ValidateInput(req) ==
    IF req.has_file
    THEN IF req.file_size = 0 THEN [status |-> 400, text |-> NoText]
         ELSE IF req.file_size > MAX_FILE_SIZE_BYTES
              THEN [status |-> 400, text |-> NoText]
         ELSE IF Lower(req.ext) \notin {"pdf", "docx", "txt"}
              THEN [status |-> 400, text |-> NoText]
         ELSE IF req.file_text.kind = "error"
              THEN [status |-> 500, text |-> NoText]
         ELSE IF IsBlank(req.file_text) THEN [status |-> 400, text |-> NoText]
         ELSE IF ChunkIds(req.file_text) = <<>>
              THEN [status |-> 400, text |-> NoText]
         ELSE [status |-> 200, text |-> req.file_text]
    ELSE IF IsBlank(req.text) THEN [status |-> 400, text |-> NoText]
         ELSE IF ChunkIds(req.text) = <<>> THEN [status |-> 400, text |-> NoText]
         ELSE [status |-> 200, text |-> req.text]

\* The scan mode lowered but with no fallback for unrecognized values.
NormalizeScanModeNoFallback(scan_mode) ==
    Lower(IF scan_mode \in {None, ""} THEN "quick" ELSE scan_mode)

\* Lines 662-664.
NormalizeScanMode(scan_mode) ==
    LET lowered == Lower(IF scan_mode \in {None, ""} THEN "quick" ELSE scan_mode)
    IN  IF lowered \notin {"quick", "deep"} THEN "quick" ELSE lowered

\* Lines 666-671: the chunks that are analysed.
CapChunks(chunks, scan_mode_normalized) ==
    IF scan_mode_normalized = "quick" /\ Len(chunks) > MAX_CHUNKS_QUICK_SCAN
    THEN SubSeq(chunks, 1, MAX_CHUNKS_QUICK_SCAN)
    ELSE chunks

\* Requests the input handling rejects, one or more of each kind.
RejectedRequests ==
    { FormRequest(t, "quick") : t \in {NoText, EmptyString, BlankText} }
    \cup { FileRequest(sz, "pdf", Content(1), Content(1), "quick") :
             sz \in {0, MAX_FILE_SIZE_BYTES + 1} }
    \cup { FileRequest(1, e, Content(1), Content(1), "deep") : e \in {"exe", ""} }
    \cup { FileRequest(1, "txt", t, Content(1), "quick") :
             t \in {EmptyString, BlankText, ExtractionError} }

\* Accepted requests: pasted text of 1..max_chunks pieces under each scan
\* mode, and one-piece uploads at the size limit.
AcceptedRequests(max_chunks, scan_modes) ==
    { FormRequest(Content(n), m) : n \in 1..max_chunks, m \in scan_modes }
    \cup { FileRequest(MAX_FILE_SIZE_BYTES, e, Content(1), NoText, "quick") :
             e \in {"PDF", "docx"} }

\* ------------------------------------------------------------------
\* Chunking (chunk_text, lines 140-157), character by character
\* ------------------------------------------------------------------
\* A text here is the sequence of its characters.
IsSpace(char) == char \in {" ", "\n"}

\* str.strip()
RECURSIVE LStrip(_)
LStrip(text) ==
    IF text # <<>> /\ IsSpace(Head(text)) THEN LStrip(Tail(text)) ELSE text

RECURSIVE RStrip(_)
RStrip(text) ==
    IF text # <<>> /\ IsSpace(text[Len(text)])
    THEN RStrip(SubSeq(text, 1, Len(text) - 1))
    ELSE text

Strip(text) == RStrip(LStrip(text))

\* The loop of a chunker that appends the slices as they are cut.
RECURSIVE SlicesUnstripped(_, _, _)
SlicesUnstripped(text, i, size) ==
    IF i >= Len(text) THEN <<>>
    ELSE <<SubSeq(text, i + 1, Min(i + size, Len(text)))>>
         \o SlicesUnstripped(text, i + size, size)

ChunkTextNoStrip(text, size) == SlicesUnstripped(Strip(text), 0, size)

\* The loop of lines 152-155 from offset i: text[i : i + size].strip(),
\* appended when it is not empty.
RECURSIVE SlicesFrom(_, _, _)
SlicesFrom(text, i, size) ==
    IF i >= Len(text) THEN <<>>
    ELSE LET chunk == Strip(SubSeq(text, i + 1, Min(i + size, Len(text))))
         IN  (IF chunk # <<>> THEN <<chunk>> ELSE <<>>)
             \o SlicesFrom(text, i + size, size)

chunk_text(text, size) == SlicesFrom(Strip(text), 0, size)

\* ------------------------------------------------------------------
\* URLs and the safety filter (is_safe_url, lines 165-203)
\* ------------------------------------------------------------------
\* The characters of a URL string, cut at the delimiters of URL syntax: the
\* tokens are ":", "//", "/", "@", ".", "[", "]" and the runs of other
\* characters between them.
Chars(url) ==
    CASE url = "https://example.com/page" ->
            <<"https", ":", "//", "example", ".", "com", "/", "page">>
      [] url = "https://a.example/p" -> <<"https", ":", "//", "a", ".", "example", "/", "p">>
      [] url = "https://b.example/q" -> <<"https", ":", "//", "b", ".", "example", "/", "q">>
      [] url = "http://127.0.0.1/x" ->
            <<"http", ":", "//", "127", ".", "0", ".", "0", ".", "1", "/", "x">>
      [] url = "http://user@127.0.0.1/" ->
            <<"http", ":", "//", "user", "@", "127", ".", "0", ".", "0", ".", "1", "/">>
      [] url = "http://0.0.0.0/" ->
            <<"http", ":", "//", "0", ".", "0", ".", "0", ".", "0", "/">>
      [] url = "http://10.0.0.5/" ->
            <<"http", ":", "//", "10", ".", "0", ".", "0", ".", "5", "/">>
      [] url = "//10.0.0.5/x" -> <<"//", "10", ".", "0", ".", "0", ".", "5", "/", "x">>
      [] url = "http://100.1.2.3/" ->
            <<"http", ":", "//", "100", ".", "1", ".", "2", ".", "3", "/">>
      [] url = "http://192.168.1.1/" ->
            <<"http", ":", "//", "192", ".", "168", ".", "1", ".", "1", "/">>
      [] url = "http://172.15.0.1/" ->
            <<"http", ":", "//", "172", ".", "15", ".", "0", ".", "1", "/">>
      [] url = "http://172.16.0.1/" ->
            <<"http", ":", "//", "172", ".", "16", ".", "0", ".", "1", "/">>
      [] url = "http://172.31.255.255/" ->
            <<"http", ":", "//", "172", ".", "31", ".", "255", ".", "255", "/">>
      [] url = "http://172.32.0.1/" ->
            <<"http", ":", "//", "172", ".", "32", ".", "0", ".", "1", "/">>
      [] url = "http://localhost:8000/admin" ->
            <<"http", ":", "//", "localhost", ":", "8000", "/", "admin">>
      [] url = "http://LOCALHOST/" -> <<"http", ":", "//", "LOCALHOST", "/">>
      [] url = "http://[::1]/" -> <<"http", ":", "//", "[", ":", ":", "1", "]", "/">>
      [] url = "http://[::1" -> <<"http", ":", "//", "[", ":", ":", "1">>
      [] url = "http:///path" -> <<"http", ":", "//", "/", "path">>
      [] url = "not a url" -> <<"not a url">>
      [] url = "" -> <<>>

\* The first position from `from` on where seq has one of the tokens, or
\* Len(seq) + 1.
RECURSIVE FirstOf(_, _, _)
FirstOf(seq, tokens, from) ==
    IF from > Len(seq) THEN Len(seq) + 1
    ELSE IF seq[from] \in tokens THEN from
    ELSE FirstOf(seq, tokens, from + 1)

\* The last position where seq has the token, or 0.
RECURSIVE LastOf(_, _, _)
LastOf(seq, token, upto) ==
    IF upto = 0 THEN 0
    ELSE IF seq[upto] = token THEN upto
    ELSE LastOf(seq, token, upto - 1)

Has(seq, token) == \E k \in 1..Len(seq) : seq[k] = token

\* urlsplit: the netloc is what follows "//", at the start or right after
\* "scheme:", up to the first "/", "?" or "#".
Netloc(chars) ==
    LET start == IF Len(chars) >= 1 /\ chars[1] = "//" THEN 2
                 ELSE IF Len(chars) >= 3 /\ chars[2] = ":" /\ chars[3] = "//" THEN 4
                 ELSE 0
    IN  IF start = 0 THEN <<>>
        ELSE SubSeq(chars, start, FirstOf(chars, {"/", "?", "#"}, start) - 1)

\* SplitResult.hostname: the netloc after the last "@"; what stands between
\* "[" and "]" if there is a "[", else what stands before the first ":";
\* lowered.  urlsplit raises ValueError on a netloc with one bracket only.
urlparse_hostname(url) ==
    LET netloc == Netloc(Chars(url))
        hostinfo == SubSeq(netloc, LastOf(netloc, "@", Len(netloc)) + 1, Len(netloc))
        open == FirstOf(hostinfo, {"["}, 1)
        host == IF Has(hostinfo, "[")
                THEN SubSeq(hostinfo, open + 1, FirstOf(hostinfo, {"]"}, open + 1) - 1)
                ELSE SubSeq(hostinfo, 1, FirstOf(hostinfo, {":"}, 1) - 1)
    IN  [raises |-> Has(netloc, "[") # Has(netloc, "]"),
         hostname |-> [k \in 1..Len(host) |-> Lower(host[k])]]

\* hostname.startswith(prefix) for the private_prefixes of lines 186-192.
HasPrivatePrefix(hostname) ==
    \/ Len(hostname) >= 2 /\ hostname[1] = "10" /\ hostname[2] = "."
    \/ Len(hostname) >= 4 /\ hostname[1] = "192" /\ hostname[2] = "."
           /\ hostname[3] = "168" /\ hostname[4] = "."
    \/ Len(hostname) >= 4 /\ hostname[1] = "172" /\ hostname[2] = "."
           /\ hostname[3] \in {"16", "17", "18", "19", "20", "21", "22", "23",
                               "24", "25", "26", "27", "28", "29", "30", "31"}
           /\ hostname[4] = "."

is_safe_url(url) ==
    LET parsed == urlparse_hostname(url)
        hostname == parsed.hostname
    IN  IF parsed.raises THEN FALSE
        ELSE IF hostname = <<>> THEN FALSE
        ELSE IF hostname \in {<<"localhost">>,
                              <<"127", ".", "0", ".", "0", ".", "1">>,
                              <<"0", ".", "0", ".", "0", ".", "0">>} THEN FALSE
        ELSE IF HasPrivatePrefix(hostname) THEN FALSE
        ELSE IF hostname = <<":", ":", "1">> THEN FALSE
        ELSE TRUE

\* ------------------------------------------------------------------
\* Citation detection (CITATION_PATTERNS, detect_citation)
\* ------------------------------------------------------------------
\* A chunk as the regular expressions see it: the maximal runs of letters,
\* the maximal runs of digits, and every other character on its own.
Letters(text, len) == [cls |-> "letters", text |-> text, len |-> len]
Digits(text, len) == [cls |-> "digits", text |-> text, len |-> len]
Blank == [cls |-> "space", text |-> " ", len |-> 1]
Newline == [cls |-> "space", text |-> "\n", len |-> 1]
Punct(text) == [cls |-> "punct", text |-> text, len |-> 1]
Underscore == [cls |-> "underscore", text |-> "_", len |-> 1]
NoToken == [cls |-> "none", text |-> "", len |-> 0]

At(chunk, k) == IF k \in 1..Len(chunk) THEN chunk[k] ELSE NoToken

\* \w: a letter, a digit or the underscore; \b stands between such a
\* character and one that is not (or the end of the text).
IsWordChar(token) == token.cls \in {"letters", "digits", "underscore"}
\* [A-Z][a-z]+ under re.IGNORECASE: two letters or more.
IsName(token) == token.cls = "letters" /\ token.len >= 2
IsYear(token) == token.cls = "digits" /\ token.len = 4
\* The position after an optional \s at position k.
SkipSpace(chunk, k) == IF At(chunk, k).cls = "space" THEN k + 1 ELSE k

\* r"\([A-Z][a-z]+,\s?\d{4}\)"
MatchApaComma(chunk, k) ==
    LET j == SkipSpace(chunk, k + 3)
    IN  /\ At(chunk, k).text = "("
        /\ IsName(At(chunk, k + 1))
        /\ At(chunk, k + 2).text = ","
        /\ IsYear(At(chunk, j))
        /\ At(chunk, j + 1).text = ")"

\* r"\([A-Z][a-z]+\s\d{4}\)"
MatchApaSpace(chunk, k) ==
    /\ At(chunk, k).text = "("
    /\ IsName(At(chunk, k + 1))
    /\ At(chunk, k + 2).cls = "space"
    /\ IsYear(At(chunk, k + 3))
    /\ At(chunk, k + 4).text = ")"

\* r"\[[0-9]+\]"
MatchNumeric(chunk, k) ==
    /\ At(chunk, k).text = "["
    /\ At(chunk, k + 1).cls = "digits"
    /\ At(chunk, k + 2).text = "]"

\* r"[A-Z][a-z]+\s\d{4},\s?\d+-\d+", where the "-" is an en dash (U+2013),
\* written "--" here.
MatchPages(chunk, k) ==
    LET j == SkipSpace(chunk, k + 4)
    IN  /\ IsName(At(chunk, k))
        /\ At(chunk, k + 1).cls = "space"
        /\ IsYear(At(chunk, k + 2))
        /\ At(chunk, k + 3).text = ","
        /\ At(chunk, j).cls = "digits"
        /\ At(chunk, j + 1).text = "--"
        /\ At(chunk, j + 2).cls = "digits"

\* r"\d+\s?[A-Z][a-z]+\s?\d{4}"
MatchInlineNumeric(chunk, k) ==
    LET n == SkipSpace(chunk, k + 1)
        y == SkipSpace(chunk, n + 1)
    IN  /\ At(chunk, k).cls = "digits"
        /\ IsName(At(chunk, n))
        /\ At(chunk, y).cls = "digits"
        /\ At(chunk, y).len >= 4

\* r"\bet al\.\b": the word "et", one space, "al", the period, and then
\* a word boundary, which after a period needs a word character.
MatchEtAl(chunk, k) ==
    /\ ~IsWordChar(At(chunk, k - 1))
    /\ At(chunk, k).cls = "letters" /\ Lower(At(chunk, k).text) = "et"
    /\ At(chunk, k + 1).text = " "
    /\ At(chunk, k + 2).cls = "letters" /\ Lower(At(chunk, k + 2).text) = "al"
    /\ At(chunk, k + 3).text = "."
    /\ IsWordChar(At(chunk, k + 4))

\* r"\d+\."
MatchFootnote(chunk, k) ==
    /\ At(chunk, k).cls = "digits"
    /\ At(chunk, k + 1).text = "."

\* re.search of any of CITATION_PATTERNS.
MatchesCitationPattern(chunk) ==
    \E k \in 1..Len(chunk) :
        \/ MatchApaComma(chunk, k)
        \/ MatchApaSpace(chunk, k)
        \/ MatchNumeric(chunk, k)
        \/ MatchPages(chunk, k)
        \/ MatchInlineNumeric(chunk, k)
        \/ MatchEtAl(chunk, k)
        \/ MatchFootnote(chunk, k)

\* len(chunk.strip()): the characters between the first and the last one
\* that is not whitespace.
RECURSIVE SumLen(_, _, _)
SumLen(chunk, from, to) ==
    IF from > to THEN 0 ELSE chunk[from].len + SumLen(chunk, from + 1, to)

StrippedLen(chunk) ==
    LET solid == {k \in 1..Len(chunk) : chunk[k].cls # "space"}
    IN  IF solid = {} THEN 0
        ELSE SumLen(chunk, CHOOSE k \in solid : \A j \in solid : k <= j,
                           CHOOSE k \in solid : \A j \in solid : k >= j)

\* The shortest stripped chunk detect_citation looks at (line 235).
MIN_CITATION_CHUNK_LENGTH == 20

\* detect_citation(chunk): is_cited (the style string is left out).
detect_citation(chunk) ==
    IF chunk = <<>> \/ StrippedLen(chunk) < MIN_CITATION_CHUNK_LENGTH THEN FALSE
    ELSE MatchesCitationPattern(chunk)

\* ------------------------------------------------------------------
\* The explored inputs of a specification
\* ------------------------------------------------------------------
Hit(url, snippet) == [url |-> url, snippet |-> snippet]

\* What a specification explores: the requests, how many chunks may lack a
\* citation, the hit lists a search may return and the texts a fetch may
\* return.
Limits(max_chunks, max_uncited, scan_modes, hit_lists, pages) ==
    [requests |-> RejectedRequests \cup AcceptedRequests(max_chunks, scan_modes),
     max_uncited |-> max_uncited,
     hit_lists |-> hit_lists,
     pages |-> pages]

\* ------------------------------------------------------------------
\* State
\* ------------------------------------------------------------------
VARIABLES
    SERPAPI_KEY,           \* whether the search credential is configured
    pc,                    \* the handler: idle, gathering, responded, rejected, failed
    request,               \* the request as received
    http_status,           \* 0 until the handler ends, then 200, 400 or 500
    chunks,                \* the chunks analysed (after the quick-scan cap)
    scan_mode_normalized,
    semaphore,             \* asyncio.Semaphore(MAX_CONCURRENT_REQUESTS)
    session,               \* the aiohttp.ClientSession: none, open, closed
    tasks,                 \* the process_chunk tasks, tasks[i] for chunk_index i - 1
    next_start,            \* the next task of the ready queue to take its first step
    all_matches,           \* the handler's all_matches, once sorted
    deduped,               \* unique_matches before the cut to MAX_MATCHES_RETURNED
    response,              \* the body of the 200 response
    call,                  \* a single call of one of the pure functions
    outcomes               \* what the web and the model answer, where it is fixed

vars == <<outcomes, call, SERPAPI_KEY, pc, request, http_status, chunks, scan_mode_normalized,
          semaphore, session, tasks, next_start, all_matches, deduped, response>>

NoSemaphore == [created |-> FALSE, value |-> 0, waiters |-> <<>>]
NoResponse ==
    [scan_mode |-> None, plagiarism_percent |-> 0,
     summary |-> [total_chunks_analyzed |-> 0, chunks_with_matches |-> 0,
                  citation_safe_chunks |-> 0],
     matches |-> <<>>]

\* A process_chunk coroutine given to gather, before its first step.
\* get_url is the URL of the page request in flight.
NewTask(chunk) ==
    [pc |-> "created", chunk |-> chunk, cited |-> FALSE, hits |-> <<>>,
     page_text |-> EmptyText, chunk_matches |-> <<>>, holds |-> FALSE,
     get_url |-> None, n_acquire |-> 0, n_search |-> 0, n_fetch |-> 0]

\* No function is called on its own: the state is that of the service.
NoCall == [fn |-> None]

\* The service before a request arrives.
ServiceInit ==
    /\ SERPAPI_KEY \in BOOLEAN
    /\ pc = "idle"
    /\ request = NoRequest
    /\ http_status = 0
    /\ chunks = <<>>
    /\ scan_mode_normalized = None
    /\ semaphore = NoSemaphore
    /\ session = "none"
    /\ tasks = <<>>
    /\ next_start = 1
    /\ all_matches = <<>>
    /\ deduped = <<>>
    /\ response = NoResponse

\* Nothing is fixed beforehand: an outbound call may end in any way.
AnyOutcome == [fixed |-> FALSE]

Init ==
    /\ ServiceInit
    /\ call = NoCall
    /\ outcomes = AnyOutcome

TaskIds == 1..Len(tasks)

\* A task inside compute_best_similarity: the call is synchronous, so the
\* event loop runs nothing else until it returns.
Running(t) == t.pc = "scoring"
LoopFree == \A i \in TaskIds : ~Running(tasks[i])
AllStarted == next_start > Len(tasks)

\* ------------------------------------------------------------------
\* The gate
\* ------------------------------------------------------------------
\* A gate one slot too wide.
NewSemaphoreTooWide ==
    [created |-> TRUE, value |-> MAX_CONCURRENT_REQUESTS + 1, waiters |-> <<>>]

\* asyncio.Semaphore(MAX_CONCURRENT_REQUESTS), line 676.
NewSemaphore ==
    [created |-> TRUE, value |-> MAX_CONCURRENT_REQUESTS, waiters |-> <<>>]

\* Semaphore.acquire without waiting: a free slot and nobody queued.
CanAcquire(sem) == sem.value > 0 /\ sem.waiters = <<>>

\* A release that hands the slot to the first waiter without waking it.
ReleaseTasksNoWakeUp(ts, sem, i, ended) == [ts EXCEPT ![i] = ended]

\* Leaving "async with semaphore" (return or raise) in task i: the slot goes
\* to the first waiter, which is woken, or back to the pool.
ReleaseSemaphore(sem) ==
    IF sem.waiters # <<>>
    THEN [sem EXCEPT !.waiters = Tail(@)]
    ELSE [sem EXCEPT !.value = @ + 1]

ReleaseTasks(ts, sem, i, ended) ==
    IF sem.waiters # <<>>
    THEN [ts EXCEPT ![i] = ended,
                    ![Head(sem.waiters)] =
                        [@ EXCEPT !.pc = "woken", !.holds = TRUE, !.n_acquire = @ + 1]]
    ELSE [ts EXCEPT ![i] = ended]

\* "for result in search_results" (lines 526-537, 574) from the head of the
\* loop to the next await or call of the scorer: with no hit left the task
\* returns; a fetch of a URL that is_safe_url rejects (line 318) or on a
\* closed session returns "" at once, leaving the snippet or nothing;
\* otherwise the page request is sent.
RECURSIVE Continue(_)
Continue(t) ==
    IF t.hits = <<>> THEN [t EXCEPT !.pc = "done", !.holds = FALSE]
    ELSE IF ~is_safe_url(Head(t.hits).url) \/ session = "closed"
         THEN IF Head(t.hits).snippet = EmptyText
              THEN Continue([t EXCEPT !.hits = Tail(@)])
              ELSE [t EXCEPT !.pc = "scoring", !.page_text = Head(t.hits).snippet]
         ELSE [t EXCEPT !.pc = "fetching", !.n_fetch = @ + 1,
                        !.get_url = Head(t.hits).url]

\* serp_search_async up to its first await (lines 268-281): without a
\* credential, or on a closed session, it returns [] at once and the task
\* goes on to return.
BeginSearch(t) ==
    IF ~SERPAPI_KEY \/ session = "closed"
    THEN Continue([t EXCEPT !.hits = <<>>])
    ELSE [t EXCEPT !.pc = "searching", !.n_search = @ + 1]

\* A loop without the snippet fallback: an empty fetch skips the hit.
AfterFetchNoFallback(t, fetched) ==
    IF fetched = EmptyText
    THEN Continue([t EXCEPT !.hits = Tail(@), !.get_url = None])
    ELSE [t EXCEPT !.pc = "scoring", !.page_text = fetched, !.get_url = None]

\* Lines 532-539 after fetch_page_async returned: the snippet fallback, then
\* skip the hit or go on to score page_text.
AfterFetch(t, fetched) ==
    LET snippet == Head(t.hits).snippet
        page_text == IF fetched = EmptyText /\ snippet # EmptyText
                     THEN snippet ELSE fetched
    IN  IF page_text = EmptyText
        THEN Continue([t EXCEPT !.hits = Tail(@), !.get_url = None])
        ELSE [t EXCEPT !.pc = "scoring", !.page_text = page_text,
                       !.get_url = None]

\* A loop that returns after the first scored hit.
AfterScoreReturnsEarly(t, chunk_index) ==
    LET best == compute_best_similarity(t.page_text)
    IN  [t EXCEPT !.pc = "done", !.holds = FALSE, !.hits = Tail(@),
                  !.page_text = EmptyText,
                  !.chunk_matches =
                      IF best.similarity >= SIMILARITY_THRESHOLD
                      THEN Append(@, SourceMatch(chunk_index, Head(t.hits).url,
                                                 best.similarity))
                      ELSE @]

\* Lines 539-570 when compute_best_similarity returns, and on to the next
\* hit.
AfterScore(t, chunk_index) ==
    LET best == compute_best_similarity(t.page_text)
        url == Head(t.hits).url
    IN  Continue([t EXCEPT !.hits = Tail(@), !.page_text = EmptyText,
                  !.chunk_matches =
                      IF best.similarity >= SIMILARITY_THRESHOLD
                      THEN Append(@, SourceMatch(chunk_index, url, best.similarity))
                      ELSE @])

\* The citation check made only after the search was sent.
CitedResultAfterSearch(t, chunk_index) ==
    [t EXCEPT !.pc = "done", !.cited = TRUE, !.n_search = @ + 1,
              !.chunk_matches = <<CitedMatch(chunk_index)>>]

\* Lines 494-516: a cited chunk returns its citation-safe entry at once.
CitedResult(t, chunk_index) ==
    [t EXCEPT !.pc = "done", !.cited = TRUE,
              !.chunk_matches = <<CitedMatch(chunk_index)>>]

\* A gate whose slot comes back only when the task returns, not when it
\* raises.
StepToLeakOnRaise(i, next) ==
    IF next.pc = "done"
    THEN /\ tasks' = ReleaseTasks(tasks, semaphore, i, next)
         /\ semaphore' = ReleaseSemaphore(semaphore)
    ELSE /\ tasks' = [tasks EXCEPT ![i] = next]
         /\ UNCHANGED semaphore

\* Task i moves to `next`; when that leaves "async with semaphore" (the task
\* returned or raised) the slot is released.
StepTo(i, next) ==
    IF next.pc \in {"done", "raised"}
    THEN /\ tasks' = ReleaseTasks(tasks, semaphore, i, next)
         /\ semaphore' = ReleaseSemaphore(semaphore)
    ELSE /\ tasks' = [tasks EXCEPT ![i] = next]
         /\ UNCHANGED semaphore

\* ------------------------------------------------------------------
\* The handler, check_plagiarism
\* ------------------------------------------------------------------
\* Lines 610-684: input handling, chunking, scan mode, the gate, the session
\* and the tasks handed to asyncio.gather; or the HTTPException of a
\* rejected input.
Receive(L) ==
    /\ pc = "idle"
    /\ \E req \in L.requests :
         LET v == ValidateInput(req)
             mode == NormalizeScanMode(req.scan_mode)
             analysed == CapChunks(ChunkIds(v.text), mode)
         IN  /\ request' = req
             /\ IF v.status # 200
                THEN /\ pc' = "rejected"
                     /\ http_status' = v.status
                     /\ UNCHANGED <<chunks, scan_mode_normalized, semaphore,
                                    session, tasks>>
                ELSE /\ pc' = "gathering"
                     /\ http_status' = 0
                     /\ chunks' = analysed
                     /\ scan_mode_normalized' = mode
                     /\ semaphore' = NewSemaphore
                     /\ session' = "open"
                     /\ tasks' = [i \in 1..Len(analysed) |-> NewTask(analysed[i])]
    /\ UNCHANGED <<outcomes, call, SERPAPI_KEY, next_start, all_matches, deduped, response>>

\* A handler that answers a failed gather with what the other tasks had
\* returned by then.
HandlerCatchPartial ==
    /\ pc = "gathering"
    /\ LoopFree
    /\ \E i \in TaskIds : tasks[i].pc = "raised"
    /\ LET flat == Flatten([i \in TaskIds |-> tasks[i].chunk_matches])
           sorted == SortBySimilarityDesc(flat)
           unique_matches == Truncate(Dedup(sorted))
       IN  /\ all_matches' = sorted
           /\ deduped' = Dedup(sorted)
           /\ response' = [scan_mode |-> scan_mode_normalized,
                           plagiarism_percent |-> PlagiarismPercent(flat, Len(chunks)),
                           summary |-> Summary(unique_matches, Len(chunks)),
                           matches |-> unique_matches]
    /\ pc' = "responded"
    /\ http_status' = 200
    /\ session' = "closed"
    /\ UNCHANGED <<outcomes, call, SERPAPI_KEY, request, chunks, scan_mode_normalized, semaphore,
                   tasks, next_start>>

\* Lines 685-689: gather raised the first exception of a task; the handler
\* answers 500 and leaves "async with session", which closes the session.
\* gather does not cancel the other tasks.
HandlerCatch ==
    /\ pc = "gathering"
    /\ LoopFree
    /\ \E i \in TaskIds : tasks[i].pc = "raised"
    /\ pc' = "failed"
    /\ http_status' = 500
    /\ session' = "closed"
    /\ UNCHANGED <<outcomes, call, SERPAPI_KEY, request, chunks, scan_mode_normalized, semaphore,
                   tasks, next_start, all_matches, deduped, response>>

\* A handler that answers as soon as one task has returned, with the
\* results there are by then.
GatherDoneOnFirstResult ==
    /\ pc = "gathering"
    /\ AllStarted
    /\ LoopFree
    /\ \E i \in TaskIds : tasks[i].pc = "done"
    /\ \A i \in TaskIds : tasks[i].pc # "raised"
    /\ LET flat == Flatten([i \in TaskIds |-> tasks[i].chunk_matches])
           unique_matches == Truncate(Dedup(SortBySimilarityDesc(flat)))
       IN  /\ all_matches' = SortBySimilarityDesc(flat)
           /\ deduped' = Dedup(SortBySimilarityDesc(flat))
           /\ response' = [scan_mode |-> scan_mode_normalized,
                           plagiarism_percent |-> PlagiarismPercent(flat, Len(chunks)),
                           summary |-> Summary(unique_matches, Len(chunks)),
                           matches |-> unique_matches]
    /\ pc' = "responded"
    /\ http_status' = 200
    /\ session' = "closed"
    /\ UNCHANGED <<outcomes, call, SERPAPI_KEY, request, chunks, scan_mode_normalized,
                   semaphore, tasks, next_start>>

\* Lines 684-772: every task returned; the session is closed and the
\* response is built.
GatherDone ==
    /\ pc = "gathering"
    /\ AllStarted
    /\ \A i \in TaskIds : tasks[i].pc = "done"
    /\ \E flat \in {Flatten([i \in TaskIds |-> tasks[i].chunk_matches])} :
       \E plagiarism_percent \in {PlagiarismPercent(flat, Len(chunks))} :
       \E sorted \in {SortBySimilarityDesc(flat)} :
       \E unique \in {Dedup(sorted)} :
       \E unique_matches \in {Truncate(unique)} :
           /\ all_matches' = sorted
           /\ deduped' = unique
           /\ response' = [scan_mode |-> scan_mode_normalized,
                           plagiarism_percent |-> plagiarism_percent,
                           summary |-> Summary(unique_matches, Len(chunks)),
                           matches |-> unique_matches]
    /\ pc' = "responded"
    /\ http_status' = 200
    /\ session' = "closed"
    /\ UNCHANGED <<outcomes, call, SERPAPI_KEY, request, chunks, scan_mode_normalized, semaphore,
                   tasks, next_start>>

\* ------------------------------------------------------------------
\* The chunk tasks, process_chunk
\* ------------------------------------------------------------------
\* The chunk tasks go on after the handler failed or was cancelled without
\* cancelling them.
TasksAlive == pc \in {"gathering", "failed", "cancelled"}

\* The first step of the next task of the ready queue (lines 487-522):
\* detect_citation decides between the citation-safe result and the gate.
TaskStart(L) ==
    /\ TasksAlive
    /\ LoopFree
    /\ ~AllStarted
    /\ LET i == next_start
           uncited == Cardinality({j \in 1..(i - 1) : ~tasks[j].cited})
       IN  \E is_cited \in IF uncited < L.max_uncited THEN BOOLEAN ELSE {TRUE} :
             IF is_cited
             THEN /\ tasks' = [tasks EXCEPT ![i] = CitedResult(@, i - 1)]
                  /\ UNCHANGED semaphore
             ELSE IF CanAcquire(semaphore)
             THEN LET next == BeginSearch([tasks[i] EXCEPT !.holds = TRUE,
                                                           !.n_acquire = @ + 1])
                  IN  IF next.pc = "done"
                      THEN /\ tasks' = [tasks EXCEPT ![i] = next]
                           /\ UNCHANGED semaphore
                      ELSE /\ tasks' = [tasks EXCEPT ![i] = next]
                           /\ semaphore' = [semaphore EXCEPT !.value = @ - 1]
             ELSE /\ semaphore' = [semaphore EXCEPT !.waiters = Append(@, i)]
                  /\ tasks' = [tasks EXCEPT ![i] = [@ EXCEPT !.pc = "waiting"]]
    /\ next_start' = next_start + 1
    /\ UNCHANGED <<outcomes, call, SERPAPI_KEY, pc, request, http_status, chunks,
                   scan_mode_normalized, session, all_matches, deduped, response>>

\* A waiter that was given a slot runs again and starts its search.
Resume(i) ==
    /\ TasksAlive
    /\ LoopFree
    /\ tasks[i].pc = "woken"
    /\ StepTo(i, BeginSearch(tasks[i]))
    /\ UNCHANGED <<outcomes, call, SERPAPI_KEY, pc, request, http_status, chunks,
                   scan_mode_normalized, session, next_start,
                   all_matches, deduped, response>>

\* Lines 289-296: of the first MAX_RESULTS_PER_CHUNK results those with a
\* link that is_safe_url accepts.
Cleaned(results) ==
    LET Accepted(result) == result.url # "" /\ is_safe_url(result.url)
    IN  SelectSeq(SubSeq(results, 1, Min(Len(results), MAX_RESULTS_PER_CHUNK)),
                  Accepted)

\* The search request ends (lines 281-303): the organic results cleaned, or
\* [] on any failure; then the loop over the hits starts.
SearchDone(L, i) ==
    /\ TasksAlive
    /\ LoopFree
    /\ AllStarted
    /\ tasks[i].pc = "searching"
    /\ \E found \in IF session = "closed" THEN {<<>>} ELSE L.hit_lists :
         StepTo(i, Continue([tasks[i] EXCEPT !.hits = Cleaned(found)]))
    /\ UNCHANGED <<outcomes, call, SERPAPI_KEY, pc, request, http_status, chunks,
                   scan_mode_normalized, session, next_start,
                   all_matches, deduped, response>>

\* The page request ends (lines 330-399): the page's text, or "" on any
\* failure.
FetchDone(L, i) ==
    /\ TasksAlive
    /\ LoopFree
    /\ tasks[i].pc = "fetching"
    /\ \E fetched \in IF session = "closed" THEN {EmptyText} ELSE L.pages :
         StepTo(i, AfterFetch(tasks[i], fetched))
    /\ UNCHANGED <<outcomes, call, SERPAPI_KEY, pc, request, http_status, chunks,
                   scan_mode_normalized, session, next_start,
                   all_matches, deduped, response>>

\* The page request is answered with a redirect: session.get (line 332)
\* leaves allow_redirects at its default, so the client follows it with a
\* GET of the new location; is_safe_url is not asked again.
Redirected(L, i) ==
    /\ TasksAlive
    /\ LoopFree
    /\ session = "open"
    /\ tasks[i].pc = "fetching"
    /\ \E location \in L.redirects :
         tasks' = [tasks EXCEPT ![i] = [@ EXCEPT !.get_url = location]]
    /\ UNCHANGED <<outcomes, call, SERPAPI_KEY, pc, request, http_status, chunks,
                   scan_mode_normalized, semaphore, session, next_start,
                   all_matches, deduped, response>>

\* compute_best_similarity and the threshold (lines 539-570).  The embedding
\* model may raise; nothing in process_chunk catches it, so the task ends
\* with the exception and "async with" releases the slot.
Score(i) ==
    /\ TasksAlive
    /\ tasks[i].pc = "scoring"
    /\ \E model_raises \in IF InvokesModel(tasks[i].page_text) THEN BOOLEAN ELSE {FALSE} :
       \E next \in {IF model_raises
                    THEN [tasks[i] EXCEPT !.pc = "raised", !.holds = FALSE]
                    ELSE AfterScore(tasks[i], i - 1)} :
         StepTo(i, next)
    /\ UNCHANGED <<outcomes, call, SERPAPI_KEY, pc, request, http_status, chunks,
                   scan_mode_normalized, session, next_start,
                   all_matches, deduped, response>>

\* ------------------------------------------------------------------
\* Cancellation of the handler while it awaits asyncio.gather (line 684)
\* ------------------------------------------------------------------
Ended(t) == t.pc \in {"done", "raised", "cancelled"}

\* Task.cancel() on the handler.  While gather is pending the cancellation
\* goes to gather, which cancels every child that has not ended; the
\* futures of the gate's waiters are cancelled with them.  Once gather has
\* completed (every child returned, or gather was told of a child's
\* exception) there is nothing left to forward: CancelledError is thrown
\* into the handler, which "except Exception" does not catch, and "async
\* with" closes the session.  Between a child raising and gather being told
\* lies one turn of the event loop, so with a raised child both cases occur.
Abort ==
    /\ pc = "gathering"
    /\ LoopFree
    /\ \E gather_completed \in
            IF \A i \in TaskIds : Ended(tasks[i]) THEN {TRUE}
            ELSE IF \E i \in TaskIds : tasks[i].pc = "raised" THEN BOOLEAN
            ELSE {FALSE} :
         IF gather_completed
         THEN /\ pc' = "cancelled"
              /\ session' = "closed"
              /\ UNCHANGED <<tasks, semaphore>>
         ELSE /\ pc' = "aborting"
              /\ tasks' = [i \in TaskIds |->
                              IF Ended(tasks[i]) THEN tasks[i]
                              ELSE [tasks[i] EXCEPT !.pc = "cancelling"]]
              /\ semaphore' = [semaphore EXCEPT !.waiters = <<>>]
              /\ UNCHANGED session
    /\ UNCHANGED <<outcomes, call, SERPAPI_KEY, request, http_status, chunks,
                   scan_mode_normalized, next_start, all_matches, deduped,
                   response>>

\* A cancelled child runs: CancelledError is raised at its await (nothing
\* in process_chunk, serp_search_async or fetch_page_async catches it) and
\* "async with semaphore" gives back the slot if the task held one.
CancelTask(i) ==
    /\ pc = "aborting"
    /\ tasks[i].pc = "cancelling"
    /\ tasks' = [tasks EXCEPT ![i] = [@ EXCEPT !.pc = "cancelled", !.holds = FALSE]]
    /\ semaphore' = IF tasks[i].holds
                    THEN [semaphore EXCEPT !.value = @ + 1]
                    ELSE semaphore
    /\ UNCHANGED <<outcomes, call, SERPAPI_KEY, pc, request, http_status, chunks,
                   scan_mode_normalized, session, next_start, all_matches,
                   deduped, response>>

\* Every child has ended: gather completes and the handler leaves "async
\* with session"; with the exception of a child that had raised (answered
\* 500, lines 685-689) or else with CancelledError.
HandlerCancelled ==
    /\ pc = "aborting"
    /\ \A i \in TaskIds : Ended(tasks[i])
    /\ session' = "closed"
    /\ IF \E i \in TaskIds : tasks[i].pc = "raised"
       THEN pc' = "failed" /\ http_status' = 500
       ELSE pc' = "cancelled" /\ UNCHANGED http_status
    /\ UNCHANGED <<outcomes, call, SERPAPI_KEY, request, chunks, scan_mode_normalized,
                   semaphore, tasks, next_start, all_matches, deduped, response>>

\* Every step but the resumption of a gate waiter.
StepsOf(L) ==
    \/ Receive(L)
    \/ TaskStart(L)
    \/ \E i \in TaskIds : SearchDone(L, i)
    \/ \E i \in TaskIds : FetchDone(L, i)
    \/ \E i \in TaskIds : Score(i)
    \/ HandlerCatch
    \/ GatherDone

NextOf(L) ==
    \/ StepsOf(L)
    \/ \E i \in TaskIds : Resume(i)

\* ------------------------------------------------------------------
\* Specifications
\* ------------------------------------------------------------------
UrlA == "https://a.example/p"
UrlB == "https://b.example/q"
\* A snippet too short to be scored, and one long enough.
ShortSnippet == OnePiece(MIN_PAGE_TEXT_LENGTH - 1, 90)
LongSnippet == OnePiece(MIN_PAGE_TEXT_LENGTH, 80)
Page(sim) == OnePiece(CHUNK_SIZE, sim)

\* Spec: up to MaxChunks chunks, each cited or not; a search finds nothing
\* or one page.
GateLimits ==
    Limits(MaxChunks, MaxChunks, {"quick"},
           {<<>>, <<Hit(UrlA, EmptyText)>>},
           {Page(45)})

Next == NextOf(GateLimits)

Spec == Init /\ [][Next]_vars

\* SpecAgg: up to AggMaxChunks chunks; a search finds up to two pages, the
\* same or different ones, with or without a snippet; a fetch fails or
\* returns a page below the threshold, in the middle tier or in the high one.
\* Fewer chunks than gate slots: no task ever waits, so no waiter resumes.
AggLimits ==
    Limits(AggMaxChunks, AggMaxChunks, {"deep"},
           {<<>>, <<Hit(UrlA, EmptyText)>>, <<Hit(UrlB, LongSnippet)>>,
            <<Hit(UrlA, EmptyText), Hit(UrlB, ShortSnippet)>>,
            <<Hit(UrlB, EmptyText), Hit(UrlA, EmptyText)>>,
            <<Hit(UrlA, EmptyText), Hit(UrlA, LongSnippet)>>},
           {EmptyText, Page(SIMILARITY_THRESHOLD - 1), Page(SIMILARITY_THRESHOLD),
            Page(HIGH_SIMILARITY_THRESHOLD)})

NextAgg == StepsOf(AggLimits)

SpecAgg == Init /\ [][NextAgg]_vars

\* SpecBig: documents of up to BigMaxChunks chunks under every scan mode,
\* nearly all chunks cited, so again no task waits at the gate.
ScanModes == {"quick", "deep", "QUICK", "Deep", "fast", ""}

BigLimits ==
    Limits(BigMaxChunks, BigMaxUncited, ScanModes,
           {<<>>, <<Hit(UrlA, EmptyText)>>},
           {EmptyText, Page(45)})

NextBig == StepsOf(BigLimits)

SpecBig == Init /\ [][NextBig]_vars

\* SpecCancel: the requests of Spec, any of which may be aborted while the
\* handler awaits its chunk tasks; every search finds one page.
CancelLimits ==
    Limits(CancelMaxChunks, CancelMaxChunks, {"quick"},
           {<<Hit(UrlA, EmptyText)>>},
           {Page(45)})

NextCancel ==
    \/ NextOf(CancelLimits)
    \/ Abort
    \/ \E i \in TaskIds : CancelTask(i)
    \/ HandlerCancelled

SpecCancel == Init /\ [][NextCancel]_vars

\* SpecUrl: searches that return links of every kind, safe and not, and
\* pages that answer with a redirect to an outside or an inside address.
ExploredUrls ==
    {"https://example.com/page", "https://a.example/p", "http://127.0.0.1/x",
     "http://user@127.0.0.1/", "http://0.0.0.0/", "http://10.0.0.5/",
     "//10.0.0.5/x", "http://100.1.2.3/", "http://192.168.1.1/",
     "http://172.15.0.1/", "http://172.16.0.1/", "http://172.31.255.255/",
     "http://172.32.0.1/", "http://localhost:8000/admin", "http://LOCALHOST/",
     "http://[::1]/", "http://[::1", "http:///path", "not a url", ""}

UrlLimits ==
    Limits(UrlMaxChunks, UrlMaxChunks, {"quick"},
           {<<Hit(url, snippet)>> : url \in ExploredUrls,
                                    snippet \in {EmptyText, LongSnippet}}
           \cup {<<Hit("http://10.0.0.5/", EmptyText), Hit(UrlA, EmptyText),
                   Hit("http://localhost:8000/admin", LongSnippet)>>},
           {EmptyText, Page(45)})
    @@ [redirects |-> {"https://example.com/page", "http://127.0.0.1/x",
                       "http://192.168.1.1/"}]

NextUrl ==
    \/ StepsOf(UrlLimits)
    \/ \E i \in TaskIds : Redirected(UrlLimits, i)

SpecUrl == Init /\ [][NextUrl]_vars

\* SpecOrder: every outbound call has its outcome fixed beforehand: what the
\* search of chunk i finds, what the k-th page request of chunk i returns
\* and whether the model raises on it.  Only the schedule is left open.
OrderHitLists ==
    <<<<Hit(UrlA, EmptyText), Hit(UrlB, LongSnippet)>>,
      <<Hit(UrlA, EmptyText)>>,
      <<Hit(UrlA, EmptyText), Hit(UrlA, EmptyText)>>>>
OrderPages ==
    <<EmptyText, Page(SIMILARITY_THRESHOLD - 1), Page(45),
      Page(HIGH_SIMILARITY_THRESHOLD)>>
FixedOutcomes(shift, raises) ==
    [fixed |-> TRUE,
     search |-> [i \in 1..OrderMaxChunks |-> OrderHitLists[((i + shift) % 3) + 1]],
     fetch |-> [i \in 1..OrderMaxChunks, k \in 1..2 |->
                   OrderPages[((i + k + shift) % 4) + 1]],
     raises |-> raises]
OrderOutcomes ==
    {FixedOutcomes(shift, raises) : shift \in {0, 1}, raises \in {{}, {<<2, 1>>}}}

OrderLimits == Limits(OrderMaxChunks, OrderMaxChunks, {"quick"}, {}, {})

\* The fixed outcome of the request of task i that is in flight.
SearchOutcome(i) == [hit_lists |-> {outcomes.search[i]}]
FetchOutcome(i) == [pages |-> {outcomes.fetch[i, tasks[i].n_fetch]}]
ModelRaises(i) ==
    /\ InvokesModel(tasks[i].page_text)
    /\ <<i, tasks[i].n_fetch>> \in outcomes.raises

InitOrder ==
    /\ ServiceInit
    /\ call = NoCall
    /\ outcomes \in OrderOutcomes

NextOrder ==
    \/ Receive(OrderLimits)
    \/ TaskStart(OrderLimits)
    \/ \E i \in TaskIds : Resume(i)
    \/ \E i \in TaskIds : SearchDone(SearchOutcome(i), i)
    \/ \E i \in TaskIds : FetchDone(FetchOutcome(i), i)
    \/ \E i \in TaskIds : Score(i) /\ (tasks'[i].pc = "raised") = ModelRaises(i)
    \/ HandlerCatch
    \/ GatherDone

SpecOrder == InitOrder /\ [][NextOrder]_vars

\* SpecLive: the requests of Spec when every search, page request and scorer
\* call returns, and the event loop runs every callback that is ready: a
\* created task takes its first step, a woken waiter resumes, a request in
\* flight ends, the scorer returns, and the handler resumes when gather is
\* done.
LiveLimits ==
    Limits(LiveMaxChunks, LiveMaxChunks, {"quick"},
           {<<>>, <<Hit(UrlA, EmptyText)>>},
           {Page(45)})

ScoreReturns(i) == Score(i) /\ tasks'[i].pc # "raised"

NextLive ==
    \/ Receive(LiveLimits)
    \/ TaskStart(LiveLimits)
    \/ \E i \in TaskIds : Resume(i)
    \/ \E i \in TaskIds : SearchDone(LiveLimits, i)
    \/ \E i \in TaskIds : FetchDone(LiveLimits, i)
    \/ \E i \in TaskIds : ScoreReturns(i)
    \/ GatherDone

Fairness ==
    /\ WF_vars(Receive(LiveLimits))
    /\ WF_vars(TaskStart(LiveLimits))
    /\ WF_vars(\E i \in TaskIds : Resume(i))
    /\ WF_vars(\E i \in TaskIds : SearchDone(LiveLimits, i))
    /\ WF_vars(\E i \in TaskIds : FetchDone(LiveLimits, i))
    /\ WF_vars(\E i \in TaskIds : ScoreReturns(i))
    /\ WF_vars(GatherDone)

SpecLive == Init /\ [][NextLive]_vars /\ Fairness

\* ------------------------------------------------------------------
\* Single calls of the pure functions
\* ------------------------------------------------------------------
\* The call returns: the function is applied to the arguments.
ReturnDetectCitation ==
    /\ call.fn = "detect_citation"
    /\ ~call.returned
    /\ call' = [call EXCEPT !.returned = TRUE, !.result = detect_citation(call.chunk)]
    /\ UNCHANGED <<outcomes, SERPAPI_KEY, pc, request, http_status, chunks,
                   scan_mode_normalized, semaphore, session, tasks, next_start,
                   all_matches, deduped, response>>

ReturnChunkText ==
    /\ call.fn = "chunk_text"
    /\ ~call.returned
    /\ call' = [call EXCEPT !.returned = TRUE,
                            !.result = chunk_text(call.text, call.size)]
    /\ UNCHANGED <<outcomes, SERPAPI_KEY, pc, request, http_status, chunks,
                   scan_mode_normalized, semaphore, session, tasks, next_start,
                   all_matches, deduped, response>>

\* SpecChunk: chunk_text on every text of up to MaxTextLen characters, two
\* letters and two kinds of whitespace, with every size up to MaxChunkSize.
ExploredTexts ==
    UNION {[1..n -> {"a", "b", " ", "\n"}] : n \in 0..MaxTextLen}

InitChunk ==
    /\ ServiceInit
    /\ outcomes = AnyOutcome
    /\ call \in {[fn |-> "chunk_text", text |-> text, size |-> size,
                   returned |-> FALSE, result |-> <<>>] :
                      text \in ExploredTexts, size \in 1..MaxChunkSize}

NextChunk == ReturnChunkText

SpecChunk == InitChunk /\ [][NextChunk]_vars

\* SpecCite: detect_citation on chunks built around "et al.": what stands
\* before it, how it is written, and what follows the period.
LongWord == Letters("lorem", 30)
ChunkLeads ==
    {<<>>, <<Letters("Smith", 5), Blank>>, <<LongWord, Blank>>,
     <<Blank, LongWord, Punct("(")>>, <<LongWord, Blank, Digits("12", 2)>>,
     <<Digits("3", 1), Punct("."), Blank, LongWord, Blank>>,
     <<Punct("["), Digits("1", 1), Punct("]"), Blank, LongWord, Blank>>,
     <<Punct("("), Letters("Smith", 5), Punct(","), Blank, Digits("2020", 4),
       Punct(")"), Blank, LongWord, Blank>>}
ChunkCores ==
    {<<Letters("et", 2), Blank, Letters("al", 2), Punct(".")>>,
     <<Letters("ET", 2), Blank, Letters("AL", 2), Punct(".")>>,
     <<Letters("get", 3), Blank, Letters("al", 2), Punct(".")>>,
     <<Letters("et", 2), Newline, Letters("al", 2), Punct(".")>>,
     <<Letters("et", 2), Blank, Letters("alia", 4)>>}
ChunkTails ==
    {<<>>, <<Blank>>, <<Blank, Letters("showed", 6), Blank, LongWord>>,
     <<Punct(","), Blank, LongWord>>, <<Punct(")"), Blank, LongWord>>,
     <<Letters("x", 1), Blank, LongWord>>, <<Digits("2020", 4), Blank, LongWord>>,
     <<Underscore, LongWord>>}
\* Runs are maximal: no run of letters next to another, nor of digits.
MaximalRuns(chunk) ==
    \A k \in 1..(Len(chunk) - 1) :
        chunk[k].cls \in {"letters", "digits"} => chunk[k + 1].cls # chunk[k].cls
CitationChunks ==
    {chunk \in {lead \o core \o tail : lead \in ChunkLeads, core \in ChunkCores,
                                         tail \in ChunkTails} :
        MaximalRuns(chunk)}

InitCite ==
    /\ ServiceInit
    /\ outcomes = AnyOutcome
    /\ call \in {[fn |-> "detect_citation", chunk |-> chunk, returned |-> FALSE,
                   result |-> FALSE] : chunk \in CitationChunks}

NextCite == ReturnDetectCitation

SpecCite == InitCite /\ [][NextCite]_vars

\* The call returns; invoked records whether model.encode was reached.
ReturnComputeBestSimilarity ==
    /\ call.fn = "compute_best_similarity"
    /\ ~call.returned
    /\ call' = [call EXCEPT !.returned = TRUE,
                            !.invoked = InvokesModel(call.page_text),
                            !.result = compute_best_similarity(call.page_text)]
    /\ UNCHANGED <<outcomes, SERPAPI_KEY, pc, request, http_status, chunks,
                   scan_mode_normalized, semaphore, session, tasks, next_start,
                   all_matches, deduped, response>>

\* SpecScore: compute_best_similarity on pages of up to MaxPagePieces
\* sub-chunks, short and long, of negative, zero, equal and nearly equal
\* similarities, alone or after a filler that ends just before, at or one
\* before the cut to MAX_PAGE_CHUNKS_PER_SOURCE sub-chunks.
ScorePieces ==
    {Piece(MIN_PAGE_CHUNK_LENGTH - 1, 90), Piece(MIN_PAGE_CHUNK_LENGTH - 20, 10),
     FinePiece(MIN_PAGE_CHUNK_LENGTH, 45, 676), FinePiece(CHUNK_SIZE, 45, 678),
     Piece(CHUNK_SIZE, 45), Piece(CHUNK_SIZE, 0), Piece(CHUNK_SIZE, -5),
     FinePiece(CHUNK_SIZE, 0, 4)}
Filler(n) == [k \in 1..n |-> Piece(CHUNK_SIZE, 10)]
\* A text cut every CHUNK_SIZE characters: every slice but the last is full.
FullSlices(page) ==
    [k \in 1..Len(page) |->
        IF k < Len(page) THEN Padded(page[k], CHUNK_SIZE) ELSE page[k]]
ScorePages ==
    {FullSlices(Filler(n) \o page) :
        n \in {0, MAX_PAGE_CHUNKS_PER_SOURCE - 2, MAX_PAGE_CHUNKS_PER_SOURCE - 1,
               MAX_PAGE_CHUNKS_PER_SOURCE},
        page \in UNION {[1..m -> ScorePieces] : m \in 0..MaxPagePieces}}
    \cup {<<Piece(len, 90)>> : len \in {MIN_PAGE_TEXT_LENGTH - 1, MIN_PAGE_TEXT_LENGTH}}
    \cup {<<Padded(Piece(MIN_PAGE_CHUNK_LENGTH, 90), raw)>> :
             raw \in {MIN_PAGE_TEXT_LENGTH - 1, MIN_PAGE_TEXT_LENGTH}}

InitScore ==
    /\ ServiceInit
    /\ outcomes = AnyOutcome
    /\ call \in {[fn |-> "compute_best_similarity", page_text |-> page_text,
                   returned |-> FALSE, invoked |-> FALSE,
                   result |-> [similarity |-> 0, cents |-> 0, piece |-> 0]] :
                      page_text \in ScorePages}

NextScore == ReturnComputeBestSimilarity

SpecScore == InitScore /\ [][NextScore]_vars

\* ------------------------------------------------------------------
\* Properties
\* ------------------------------------------------------------------
\* The tasks with an outbound request (search or page fetch) in flight.
InFlight == {i \in TaskIds : tasks[i].pc \in {"searching", "fetching"}}
Holders == {i \in TaskIds : tasks[i].holds}

\* C1: at any moment of a /check request the number of outbound network
\* operations in flight (searches plus page fetches, over all chunk tasks)
\* is at most the pool size MAX_CONCURRENT_REQUESTS, and every one of them
\* belongs to a task that holds a gate slot.
C1_InFlightWithinPool ==
    /\ Cardinality(InFlight) <= MAX_CONCURRENT_REQUESTS
    /\ InFlight \subseteq Holders
    /\ Cardinality(Holders) <= MAX_CONCURRENT_REQUESTS

\* C1 witness: the pool is exhausted by requests in flight while another
\* uncited chunk waits at the gate.
C1_Witness ==
    /\ Cardinality(InFlight) = MAX_CONCURRENT_REQUESTS
    /\ \E i \in TaskIds : tasks[i].pc = "waiting"

\* C2: a chunk the citation detector classifies as cited goes from its start
\* straight to its citation-safe result: it never acquires the gate, never
\* waits for it, never sends a search and never sends a page fetch.
C2_CitedSkipsNetwork ==
    \A i \in TaskIds :
        tasks[i].cited =>
            /\ tasks[i].pc = "done"
            /\ tasks[i].n_acquire = 0
            /\ tasks[i].n_search = 0
            /\ tasks[i].n_fetch = 0
            /\ ~tasks[i].holds
            /\ \A k \in 1..Len(semaphore.waiters) : semaphore.waiters[k] # i

\* C2 witness: a cited chunk has returned while an uncited chunk of the same
\* request has a page fetch in flight.
C2_Witness ==
    /\ \E i \in TaskIds : tasks[i].cited /\ tasks[i].pc = "done"
    /\ \E j \in TaskIds : ~tasks[j].cited /\ tasks[j].pc = "fetching"

\* C3 (as claimed): a failure while fetching or scoring one source aborts
\* neither its chunk nor the request: no chunk task ends with an exception
\* and the handler never answers with the server-side error.
C3_SourceFailureIsolated ==
    /\ \A i \in TaskIds : tasks[i].pc # "raised"
    /\ pc # "failed"

\* The inputs the handler is to reject: no text and no file, an empty or
\* oversized upload, an unsupported extension, blank text after extraction.
InvalidInput(req) ==
    IF req.has_file
    THEN \/ req.file_size = 0
         \/ req.file_size > MAX_FILE_SIZE_BYTES
         \/ req.ext \notin {"pdf", "PDF", "docx", "txt"}
         \/ req.file_text.kind \in {"none", "empty", "blank"}
    ELSE req.text.kind \in {"none", "empty", "blank"}

\* C10: a request with invalid input ends in a client-facing error (400)
\* without any chunk being processed: no gate and no session exist, no task
\* was created, so no search or fetch was sent.
C10_RejectedBeforeProcessing ==
    (pc # "idle" /\ InvalidInput(request)) =>
        /\ pc = "rejected"
        /\ http_status = 400
        /\ ~semaphore.created
        /\ session = "none"
        /\ tasks = <<>>
        /\ chunks = <<>>

\* C10 witness: an upload one byte over the limit was rejected.
C10_Witness ==
    /\ pc = "rejected"
    /\ request.has_file
    /\ request.file_size = MAX_FILE_SIZE_BYTES + 1

\* The entries chunk task i returned, and the chunks with a match: uncited,
\* with at least one candidate at or above the threshold.
TaskMatches(i) == RangeOf(tasks[i].chunk_matches)
MatchedChunks ==
    {i \in TaskIds : ~tasks[i].cited
        /\ \E m \in TaskMatches(i) : m.similarity >= SIMILARITY_THRESHOLD}
CitedChunks == {i \in TaskIds : tasks[i].cited}
Abs(x) == IF x < 0 THEN -x ELSE x

C5_CitedChunkOneSafeEntry ==
    /\ \A i \in TaskIds :
        /\ (tasks[i].cited /\ tasks[i].pc = "done") =>
              /\ Len(tasks[i].chunk_matches) = 1
              /\ tasks[i].chunk_matches[1].citation_safe
              /\ tasks[i].chunk_matches[1].similarity = 0
              /\ tasks[i].chunk_matches[1].source = "Citation Detected"
              /\ tasks[i].chunk_matches[1].chunk_index = i - 1
        /\ ~tasks[i].cited => \A m \in TaskMatches(i) : ~m.citation_safe
    /\ pc = "responded" =>
          {m.chunk_index : m \in {x \in RangeOf(all_matches) : x.citation_safe}}
          \cap {m.chunk_index : m \in {x \in RangeOf(all_matches) :
                  ~x.citation_safe /\ x.similarity >= SIMILARITY_THRESHOLD}} = {}

\* C5 witness: a response over one cited chunk and one chunk with a match.
C5_Witness ==
    /\ pc = "responded"
    /\ CitedChunks # {}
    /\ MatchedChunks # {}

\* Every non-citation candidate the chunk tasks returned.
SourceEntries == {m \in UNION {TaskMatches(i) : i \in TaskIds} : ~m.citation_safe}
\* The entry deduplication is to keep for source s: the highest similarity,
\* and among equals the earliest chunk.
IsKeptFor(m, s) ==
    /\ m \in SourceEntries
    /\ m.source = s
    /\ \A o \in SourceEntries :
          o.source = s =>
              \/ o.similarity < m.similarity
              \/ o.similarity = m.similarity /\ o.chunk_index >= m.chunk_index

\* C6: after deduplication each source of a non-citation candidate appears
\* exactly once, with its highest similarity (the earliest chunk on equal
\* similarity), and every cited chunk's citation-safe entry is still there,
\* although all of them share the source "Citation Detected".
C6_DedupKeepsBestPerSource ==
    pc = "responded" =>
        /\ \A s \in {m.source : m \in SourceEntries} :
              /\ Cardinality({k \in 1..Len(deduped) :
                    ~deduped[k].citation_safe /\ deduped[k].source = s}) = 1
              /\ \A k \in 1..Len(deduped) :
                    (~deduped[k].citation_safe /\ deduped[k].source = s)
                        => IsKeptFor(deduped[k], s)
        /\ \A k \in 1..Len(deduped) :
              ~deduped[k].citation_safe => deduped[k] \in SourceEntries
        /\ \A i \in CitedChunks :
              Cardinality({k \in 1..Len(deduped) :
                    deduped[k].citation_safe /\ deduped[k].chunk_index = i - 1}) = 1
        /\ Cardinality({k \in 1..Len(deduped) : deduped[k].citation_safe})
              = Cardinality(CitedChunks)

\* C6 witness: two chunks matched the same source with different
\* similarities, the later chunk with the higher one, and it is the later
\* chunk's entry that was kept.
C6_Witness ==
    /\ pc = "responded"
    /\ \E m1, m2 \in SourceEntries :
          /\ m1.source = m2.source
          /\ m1.chunk_index < m2.chunk_index
          /\ m1.similarity < m2.similarity
          /\ \E k \in 1..Len(deduped) : deduped[k] = m2
          /\ \A k \in 1..Len(deduped) : deduped[k] # m1

\* C7 (as claimed): summary.citation_safe_chunks is the number of analysed
\* chunks that were classified as citation-safe.
C7_CitationSafeCount ==
    pc = "responded" =>
        response.summary.citation_safe_chunks = Cardinality(CitedChunks)

\* C8 (as claimed): summary.chunks_with_matches is the number of chunks with
\* a non-citation candidate at or above the threshold, the K of
\* plagiarism_percent.
C8_ChunksWithMatchesCount ==
    pc = "responded" =>
        response.summary.chunks_with_matches = Cardinality(MatchedChunks)

\* The chunks the chunker produced for the request, and whether its scan
\* mode asks for a deep scan (the mode is compared case-insensitively).
ProducedChunks == IF request.has_file THEN request.file_text.n ELSE request.text.n
AsksDeep == request.scan_mode \in {"deep", "Deep"}
AnalysedCount ==
    IF AsksDeep THEN ProducedChunks ELSE Min(ProducedChunks, MAX_CHUNKS_QUICK_SCAN)

\* C9: under "quick" or an unrecognized scan mode exactly the first
\* min(n, 15) of the n produced chunks are processed, the response says
\* "quick" and total_chunks_analyzed = min(n, 15); under "deep" all n are
\* processed.  No task exists for a chunk beyond the cap, so none is
\* searched or scored.
C9_ScanModeCap ==
    pc \in {"gathering", "failed", "responded"} =>
        /\ Len(chunks) = AnalysedCount
        /\ \A k \in 1..Len(chunks) : chunks[k] = k
        /\ Len(tasks) = AnalysedCount
        /\ \A i \in TaskIds : tasks[i].chunk = i
        /\ scan_mode_normalized = IF AsksDeep THEN "deep" ELSE "quick"
        /\ pc = "responded" =>
              /\ response.summary.total_chunks_analyzed = AnalysedCount
              /\ response.scan_mode = IF AsksDeep THEN "deep" ELSE "quick"

\* C9 witness: a document of more than MAX_CHUNKS_QUICK_SCAN chunks under an
\* unrecognized scan mode, answered over 15 chunks, one of which was
\* searched.
C9_Witness ==
    /\ pc = "responded"
    /\ request.scan_mode = "fast"
    /\ ProducedChunks > MAX_CHUNKS_QUICK_SCAN
    /\ response.summary.total_chunks_analyzed = MAX_CHUNKS_QUICK_SCAN
    /\ \E i \in TaskIds : tasks[i].n_search = 1

\* A permutation test on sequences of match entries: the same entries, each
\* as many times.
SameEntries(a, b) ==
    /\ Len(a) = Len(b)
    /\ \A m \in RangeOf(a) \cup RangeOf(b) :
          Cardinality({k \in 1..Len(a) : a[k] = m})
              = Cardinality({k \in 1..Len(b) : b[k] = m})

\* C11: a request whose gather saw a chunk task raise ends with the single
\* server-side error (500) and no result body; a request answers 200 only
\* when every analysed chunk's task returned, and then the aggregated list is
\* made of the entries of all of them.  Results of only some chunks are
\* never returned.
C11_AllOrNothing ==
    /\ pc = "failed" =>
          /\ http_status = 500
          /\ response = NoResponse
          /\ \E i \in TaskIds : tasks[i].pc = "raised"
    /\ pc = "responded" =>
          /\ http_status = 200
          /\ Len(tasks) = Len(chunks)
          /\ \A i \in TaskIds : tasks[i].pc = "done"
          /\ SameEntries(all_matches,
                         Flatten([i \in TaskIds |-> tasks[i].chunk_matches]))
    /\ (\E i \in TaskIds : tasks[i].pc = "raised") =>
          /\ pc # "responded"
          /\ response = NoResponse

\* C11 witness: the request failed on one chunk's exception although
\* another chunk had already returned a match, which is not reported.
C11_Witness ==
    /\ pc = "failed"
    /\ response = NoResponse
    /\ \E i \in TaskIds : tasks[i].pc = "raised"
    /\ \E j \in TaskIds : tasks[j].pc = "done" /\ ~tasks[j].cited
                           /\ tasks[j].chunk_matches # <<>>

\* C12: the gate's slot is given back on every exit of a chunk's search and
\* fetch section, a raise included: the free slots are always between 0 and
\* MAX_CONCURRENT_REQUESTS, they are the pool less the tasks inside the
\* section, a task that has ended holds none, and once every chunk task has
\* ended (returned, raised or cancelled) the whole pool is free and nobody
\* waits.
C12_SlotsReleased ==
    semaphore.created =>
        /\ semaphore.value \in 0..MAX_CONCURRENT_REQUESTS
        /\ semaphore.value = MAX_CONCURRENT_REQUESTS - Cardinality(Holders)
        /\ \A i \in TaskIds : Ended(tasks[i]) => ~tasks[i].holds
        /\ (\A i \in TaskIds : Ended(tasks[i])) =>
              /\ semaphore.value = MAX_CONCURRENT_REQUESTS
              /\ semaphore.waiters = <<>>

\* C12 witness: more uncited chunks than slots, so one waited at the gate;
\* every one of them acquired a slot, one raised inside the section, all
\* have ended and the pool is whole again.
C12_Witness ==
    /\ Len(tasks) > MAX_CONCURRENT_REQUESTS
    /\ \A i \in TaskIds : Ended(tasks[i]) /\ tasks[i].n_acquire = 1
    /\ \E i \in TaskIds : tasks[i].pc = "raised"
    /\ semaphore.value = MAX_CONCURRENT_REQUESTS

\* C13 (as claimed): once the handler has been cancelled while it waited
\* for the chunk tasks, every chunk task has ended, none holds a gate slot,
\* the pool is whole and the session is closed.
C13_AbortCancelsAll ==
    pc = "cancelled" =>
        /\ \A i \in TaskIds : Ended(tasks[i]) /\ ~tasks[i].holds
        /\ semaphore.value = MAX_CONCURRENT_REQUESTS
        /\ session = "closed"

\* C14: the matches of a response are at most MAX_MATCHES_RETURNED, their
\* similarities never increase along the list, and every citation-safe
\* entry comes after every entry that is not.
C14_MatchesCappedAndOrdered ==
    pc = "responded" =>
        /\ Len(response.matches) <= MAX_MATCHES_RETURNED
        /\ \A k \in 1..(Len(response.matches) - 1) :
              response.matches[k].similarity >= response.matches[k + 1].similarity
        /\ \A j, k \in 1..Len(response.matches) :
              (response.matches[j].citation_safe /\ ~response.matches[k].citation_safe)
                  => k < j

\* C14 witness: more entries than the cap, so the list was cut; the one
\* entry that is not citation-safe comes from a later chunk, leads the list,
\* and citation-safe entries follow it.
C14_Witness ==
    /\ pc = "responded"
    /\ Len(deduped) > MAX_MATCHES_RETURNED
    /\ Len(response.matches) = MAX_MATCHES_RETURNED
    /\ ~response.matches[1].citation_safe
    /\ response.matches[1].chunk_index > 0
    /\ response.matches[2].citation_safe

\* C15 (as claimed): the safety filter stands before every hit and every
\* page request: no hit a search returned and no GET of the page fetcher is
\* for a URL whose hostname is empty or unparsable, is localhost, 127.0.0.1,
\* 0.0.0.0 or ::1, or starts with 10., 192.168. or 172.16. to 172.31.; and
\* https://example.com/page is accepted.
C15_OnlySafeUrlsRequested ==
    /\ is_safe_url("https://example.com/page")
    /\ \A i \in TaskIds :
          /\ \A k \in 1..Len(tasks[i].hits) : is_safe_url(tasks[i].hits[k].url)
          /\ tasks[i].pc = "fetching" => is_safe_url(tasks[i].get_url)

\* The chunk contains the text "et al.": a word ending in "et", a space,
\* "al" and the period.
ContainsEtAl(chunk) ==
    \E k \in 1..Len(chunk) :
        /\ chunk[k].cls = "letters" /\ chunk[k].text \in {"et", "get"}
        /\ At(chunk, k + 1).text = " "
        /\ At(chunk, k + 2).cls = "letters" /\ At(chunk, k + 2).text = "al"
        /\ At(chunk, k + 3).text = "."

\* C16 (as claimed): a chunk of at least 20 characters after trimming that
\* contains "et al." is classified as cited, whatever follows the period.
C16_EtAlIsCited ==
    (call.fn = "detect_citation" /\ call.returned
        /\ StrippedLen(call.chunk) >= MIN_CITATION_CHUNK_LENGTH
        /\ ContainsEtAl(call.chunk))
    => call.result

CeilDiv(a, b) == (a + b - 1) \div b

\* The characters of a trimmed text that survive chunking with the given
\* size: all but the whitespace that reaches, inside its slice, the start or
\* the end of the slice.
RECURSIVE KeptFrom(_, _, _)
KeptFrom(text, size, i) ==
    IF i > Len(text) THEN <<>>
    ELSE LET lo == ((i - 1) \div size) * size + 1
             hi == Min(lo + size - 1, Len(text))
             at_boundary == \/ \A j \in lo..i : IsSpace(text[j])
                            \/ \A j \in i..hi : IsSpace(text[j])
         IN  (IF at_boundary THEN <<>> ELSE <<text[i]>>)
             \o KeptFrom(text, size, i + 1)

\* C17: for a text of length L and a chunk size S >= 1, chunk_text returns
\* at most ceil(L/S) pieces, each non-empty, without leading or trailing
\* whitespace and of length <= S; concatenated in their order they are the
\* trimmed text without the whitespace at the piece boundaries; an empty or
\* whitespace-only text gives no piece.
C17_ChunkTextPieces ==
    (call.fn = "chunk_text" /\ call.returned) =>
        /\ Len(call.result) <= CeilDiv(Len(call.text), call.size)
        /\ \A k \in 1..Len(call.result) :
              LET piece == call.result[k]
              IN  /\ piece # <<>>
                  /\ Len(piece) <= call.size
                  /\ ~IsSpace(piece[1])
                  /\ ~IsSpace(piece[Len(piece)])
        /\ Flatten(call.result) = KeptFrom(Strip(call.text), call.size, 1)
        /\ (\A k \in 1..Len(call.text) : IsSpace(call.text[k]))
              => call.result = <<>>

\* C17 witness: a text cut into two pieces of which the first keeps the
\* whitespace in its middle and the second lost the whitespace at its edge.
C17_Witness ==
    /\ call.fn = "chunk_text" /\ call.returned
    /\ call.size = 3
    /\ call.text = <<"a", " ", "b", "\n", "b">>
    /\ call.result = <<<<"a", " ", "b">>, <<"b">>>>

\* C18: in a chunk task a page fetch starts only in the step in which the
\* operation before it completes: the search, or the fetch (and the scoring,
\* if any) of the hit before; the task returns only with no hit left to
\* process and nothing in progress; and the aggregation (all_matches, the
\* response) is made only when every chunk task has returned.
C18_StepsInOrder ==
    [][/\ \A i \in TaskIds :
            /\ tasks'[i].n_fetch # tasks[i].n_fetch =>
                  /\ tasks[i].pc \in {"searching", "fetching", "scoring"}
                  /\ tasks[i].n_search = 1
                  /\ tasks'[i].n_search = 1
                  /\ tasks'[i].n_fetch = tasks[i].n_fetch + 1
                  /\ tasks'[i].pc = "fetching"
                  /\ tasks'[i].page_text = EmptyText
            /\ tasks'[i].n_search # tasks[i].n_search =>
                  /\ tasks[i].n_search = 0 /\ tasks[i].n_fetch = 0
                  /\ tasks'[i].pc = "searching"
            /\ (tasks'[i].pc = "done" /\ tasks[i].pc # "done") =>
                  /\ tasks'[i].hits = <<>>
                  /\ tasks'[i].page_text = EmptyText
       /\ (all_matches' # all_matches \/ deduped' # deduped \/ response' # response) =>
            /\ \A i \in TaskIds : tasks[i].pc = "done"
            /\ tasks' = tasks
            /\ pc' = "responded"]_vars

\* C18 witness: a task whose first hit was fetched and scored into a match
\* has the fetch of its second hit in flight, while the other task is
\* still in its search.
C18_Witness ==
    /\ \E i \in TaskIds :
          /\ tasks[i].pc = "fetching"
          /\ tasks[i].n_fetch = 2
          /\ Len(tasks[i].chunk_matches) = 1
    /\ \E j \in TaskIds : tasks[j].pc = "searching"

\* Every candidate that is not citation-safe, returned by a task so far or
\* listed in the response.
EmittedSourceEntries ==
    SourceEntries \cup {m \in RangeOf(response.matches) : ~m.citation_safe}

\* C19: every candidate that is not citation-safe has similarity >= 30; it
\* is labelled "Potential Plagiarism" exactly when its similarity is below
\* 60 and "High Risk" exactly when it is 60 or more, with the recommendation
\* of the same tier; "No Significant Match" is the label of no entry.
C19_LabelsByTier ==
    /\ \A m \in EmittedSourceEntries :
          /\ m.similarity >= SIMILARITY_THRESHOLD
          /\ m.status = "Potential Plagiarism"
                <=> m.similarity < HIGH_SIMILARITY_THRESHOLD
          /\ m.status = "High Risk" <=> m.similarity >= HIGH_SIMILARITY_THRESHOLD
          /\ m.recommendation = "add citation"
                <=> m.similarity < HIGH_SIMILARITY_THRESHOLD
          /\ m.recommendation = "rewrite or cite"
                <=> m.similarity >= HIGH_SIMILARITY_THRESHOLD
    /\ \A i \in TaskIds : \A m \in TaskMatches(i) :
          m.status # "No Significant Match Detected"
    /\ \A m \in RangeOf(response.matches) :
          m.status # "No Significant Match Detected"

\* C19 witness: a response with an entry at each threshold, 30 and 60, from
\* a chunk one of whose sources scored below 30 and was left out.
C19_Witness ==
    /\ pc = "responded"
    /\ \E m \in RangeOf(response.matches) :
          m.similarity = SIMILARITY_THRESHOLD /\ m.status = "Potential Plagiarism"
    /\ \E m \in RangeOf(response.matches) :
          m.similarity = HIGH_SIMILARITY_THRESHOLD /\ m.status = "High Risk"
    /\ \E i \in TaskIds : tasks[i].n_fetch = 2 /\ Len(tasks[i].chunk_matches) = 1

\* C20: for the hit whose page request is in flight, whatever the fetch
\* returns: a non-empty text is what the scorer is given; with an empty text
\* and a non-empty snippet the scorer is given the snippet; with both empty
\* the scorer is not called for this hit, no entry is added, and the task
\* goes on to the next hit (or returns after the last one).  The scorer is
\* never given an empty text.
C20_SnippetFallback ==
    \A i \in TaskIds :
        /\ tasks[i].pc = "scoring" => tasks[i].page_text # EmptyText
        /\ tasks[i].pc = "fetching" =>
              \A fetched \in AggLimits.pages :
                  LET hit == Head(tasks[i].hits)
                      next == AfterFetch(tasks[i], fetched)
                  IN  IF fetched # EmptyText
                      THEN /\ next.pc = "scoring"
                           /\ next.page_text = fetched
                           /\ next.hits = tasks[i].hits
                      ELSE IF hit.snippet # EmptyText
                      THEN /\ next.pc = "scoring"
                           /\ next.page_text = hit.snippet
                           /\ next.hits = tasks[i].hits
                      ELSE /\ next.pc # "scoring" \/ next.hits # tasks[i].hits
                           /\ next.chunk_matches = tasks[i].chunk_matches
                           /\ Len(next.hits) < Len(tasks[i].hits)
                           /\ (Tail(tasks[i].hits) # <<>> /\ session = "open") =>
                                 /\ next.pc = "fetching"
                                 /\ next.hits = Tail(tasks[i].hits)
                           /\ Tail(tasks[i].hits) = <<>> => next.pc = "done"

\* C20 witness: the scorer is given the snippet of the second hit of a
\* chunk, whose fetch came back empty, the first hit having left no entry.
C20_Witness ==
    \E i \in TaskIds :
        /\ tasks[i].pc = "scoring"
        /\ tasks[i].n_fetch = 2
        /\ tasks[i].chunk_matches = <<>>
        /\ tasks[i].page_text = Head(tasks[i].hits).snippet

\* The sub-chunks of a page that the scorer compares: among the first
\* MAX_PAGE_CHUNKS_PER_SOURCE and of length MIN_PAGE_CHUNK_LENGTH or more.
Surviving(page_text) ==
    {k \in 1..Min(Len(page_text), MAX_PAGE_CHUNKS_PER_SOURCE) :
        page_text[k].len >= MIN_PAGE_CHUNK_LENGTH}
\* Those of them with similarity above 0, and the first of the greatest.
Positive(page_text) == {k \in Surviving(page_text) : Similarity(page_text[k]) > 0}
Greatest(page_text) ==
    {k \in Positive(page_text) :
        \A j \in Positive(page_text) :
            Similarity(page_text[j]) <= Similarity(page_text[k])}
FirstGreatest(page_text) ==
    CHOOSE k \in Greatest(page_text) : \A j \in Greatest(page_text) : k <= j

\* The returned similarity, in thousandths of a percent.
ReturnedSimilarity(result) == (result.similarity * 100 + result.cents) * 10

\* What C21 says in every case but the value returned for a scored page.
ScorerCases(ValueIs(_, _)) ==
    (call.fn = "compute_best_similarity" /\ call.returned) =>
        LET page_text == call.page_text
            result == call.result
        IN  IF page_text = EmptyText \/ TextLen(page_text) < MIN_PAGE_TEXT_LENGTH
            THEN /\ result = [similarity |-> 0, cents |-> 0, piece |-> 0]
                 /\ ~call.invoked
            ELSE /\ call.invoked
                 /\ result.piece # 0 => result.piece \in Surviving(page_text)
                 /\ IF Positive(page_text) = {}
                    THEN result = [similarity |-> 0, cents |-> 0, piece |-> 0]
                    ELSE /\ result.piece = FirstGreatest(page_text)
                         /\ ValueIs(ReturnedSimilarity(result),
                                    Similarity(page_text[FirstGreatest(page_text)]))

\* C21 as stated: the similarity returned for a page of 100 characters or
\* more is the greatest similarity of its surviving sub-chunks, with the
\* first sub-chunk that has it; no sub-chunk shorter than 50 is returned;
\* without a surviving sub-chunk of similarity above 0 the result is (0, "");
\* an empty or shorter page gives (0, "") and the model is not invoked.
C21_ReturnsMaximum ==
    LET Same(returned, greatest) == returned = greatest
    IN  ScorerCases(Same)

\* C21, amended: as C21_ReturnsMaximum, but the value returned is the
\* greatest similarity rounded to two decimals (line 447); the sub-chunk
\* returned is still the first with the greatest unrounded similarity.
C21_ReturnsRoundedMaximum ==
    LET Rounded(returned, greatest) == returned = Round2(greatest) * 10
    IN  ScorerCases(Rounded)

\* C21 witness: after 19 sub-chunks of similarity 10, the 20th, of just 50
\* characters, has 45.676; the 21st has 45.678 but is cut off and the 22nd
\* is too short: 45.68 is returned with the 20th.
C21_Witness ==
    /\ call.fn = "compute_best_similarity"
    /\ call.returned
    /\ call.invoked
    /\ Len(call.page_text) = MAX_PAGE_CHUNKS_PER_SOURCE + 2
    /\ call.page_text[MAX_PAGE_CHUNKS_PER_SOURCE] =
          Padded(FinePiece(MIN_PAGE_CHUNK_LENGTH, 45, 676), CHUNK_SIZE)
    /\ call.page_text[MAX_PAGE_CHUNKS_PER_SOURCE + 1] = FinePiece(CHUNK_SIZE, 45, 678)
    /\ call.page_text[MAX_PAGE_CHUNKS_PER_SOURCE + 2] =
          Piece(MIN_PAGE_CHUNK_LENGTH - 1, 90)
    /\ call.result = [similarity |-> 45, cents |-> 68,
                      piece |-> MAX_PAGE_CHUNKS_PER_SOURCE]

\* C22 (as claimed): no chunk task holds a gate slot while the scorer runs
\* the embedding model on one of that chunk's sources.
C22_NoSlotWhileScoring ==
    \A i \in TaskIds :
        (Running(tasks[i]) /\ InvokesModel(tasks[i].page_text)) => ~tasks[i].holds

\* Chunk i processed on its own, one call after the other, with the fixed
\* outcomes: the entries it returns, or that it raises.
RECURSIVE SequentialRun(_, _, _, _)
SequentialRun(i, hits, k, entries) ==
    IF hits = <<>> THEN [raised |-> FALSE, matches |-> entries]
    ELSE LET fetched == outcomes.fetch[i, k]
             text == IF fetched = EmptyText THEN Head(hits).snippet ELSE fetched
             best == compute_best_similarity(text)
         IN  IF text = EmptyText THEN SequentialRun(i, Tail(hits), k + 1, entries)
             ELSE IF InvokesModel(text) /\ <<i, k>> \in outcomes.raises
             THEN [raised |-> TRUE, matches |-> entries]
             ELSE SequentialRun(i, Tail(hits), k + 1,
                                IF best.similarity >= SIMILARITY_THRESHOLD
                                THEN Append(entries,
                                            SourceMatch(i - 1, Head(hits).url,
                                                        best.similarity))
                                ELSE entries)

ChunkAlone(i) ==
    IF tasks[i].cited THEN [raised |-> FALSE, matches |-> <<CitedMatch(i - 1)>>]
    ELSE IF ~SERPAPI_KEY THEN [raised |-> FALSE, matches |-> <<>>]
    ELSE SequentialRun(i, Cleaned(outcomes.search[i]), 1, <<>>)

\* The response to the chunks processed one after the other, in order.
SequentialResponse ==
    LET flat == Flatten([i \in TaskIds |-> ChunkAlone(i).matches])
        unique_matches == Truncate(Dedup(SortBySimilarityDesc(flat)))
    IN  [scan_mode |-> scan_mode_normalized,
         plagiarism_percent |-> PlagiarismPercent(flat, Len(chunks)),
         summary |-> Summary(unique_matches, Len(chunks)),
         matches |-> unique_matches]

\* C23: with the outcome of every search, fetch and scorer call fixed, the
\* response does not depend on the schedule of the chunk tasks: whatever the
\* interleaving, a task returns what its chunk gives when processed alone,
\* the request is answered 200 exactly when no chunk raises on its own, and
\* then plagiarism_percent, summary and the ordered matches are those of
\* the chunks processed one after the other.
C23_ScheduleIndependent ==
    outcomes.fixed =>
        /\ pc \in {"gathering", "responded"} =>
              \A i \in TaskIds :
                  /\ tasks[i].pc = "done" =>
                        /\ ~ChunkAlone(i).raised
                        /\ tasks[i].chunk_matches = ChunkAlone(i).matches
                  /\ tasks[i].pc = "raised" => ChunkAlone(i).raised
        /\ pc = "responded" =>
              /\ \A i \in TaskIds : ~ChunkAlone(i).raised
              /\ response = SequentialResponse
        /\ pc = "failed" => \E i \in TaskIds : ChunkAlone(i).raised

\* C23 witness: a response to more uncited chunks than the gate has slots,
\* so one waited for a slot; two chunks matched the same source with the
\* same similarity, and the entry listed for it is the earlier chunk's.
C23_Witness ==
    /\ outcomes.fixed
    /\ pc = "responded"
    /\ Len(tasks) > MAX_CONCURRENT_REQUESTS
    /\ \A i \in TaskIds : ~tasks[i].cited /\ tasks[i].n_acquire = 1
    /\ \E m \in RangeOf(response.matches) : \E j \in TaskIds :
          /\ j - 1 > m.chunk_index
          /\ \E e \in TaskMatches(j) :
                e.source = m.source /\ e.similarity = m.similarity

\* C24 (as claimed): once the session is closed every chunk task of the
\* request has ended (returned, raised or been cancelled): none is waiting
\* at the gate, has a search or a page request in flight, or is scoring.
C24_NoTaskAfterSessionClosed ==
    session = "closed" => \A i \in TaskIds : Ended(tasks[i])

\* C25: when every call returns and the event loop is fair, every request
\* given to the chunk tasks is eventually answered with a response, by when
\* every chunk task has returned (its result, or the citation-safe entry),
\* every uncited one having held a gate slot once, whether it had to wait
\* for it or not, and nobody is left waiting at the gate; also with more
\* than MAX_CONCURRENT_REQUESTS uncited chunks.
C25_EveryTaskAndRequestCompletes ==
    (pc = "gathering") ~>
        /\ pc = "responded"
        /\ http_status = 200
        /\ \A i \in TaskIds :
              /\ tasks[i].pc = "done"
              /\ ~tasks[i].holds
              /\ tasks[i].n_acquire = IF tasks[i].cited THEN 0 ELSE 1
        /\ semaphore.waiters = <<>>

\* C25 witness: a request of more uncited chunks than the gate has slots
\* has been answered: the last chunk waited at the gate, acquired a slot,
\* searched, fetched a page and returned its match.
C25_Witness ==
    /\ pc = "responded"
    /\ Len(tasks) > MAX_CONCURRENT_REQUESTS
    /\ \A i \in TaskIds : ~tasks[i].cited /\ tasks[i].pc = "done"
    /\ tasks[Len(tasks)].n_acquire = 1
    /\ tasks[Len(tasks)].n_fetch = 1
    /\ tasks[Len(tasks)].chunk_matches # <<>>
    /\ semaphore.value = MAX_CONCURRENT_REQUESTS

====
